---------------------------- MODULE Spec2Model ----------------------------
(***************************************************************************)
(* Model of the Vigilo core: the state helper (state.ts), the store        *)
(* (store.ts) and the localStorage adapter (storage.ts).                   *)
(*                                                                         *)
(* JavaScript values are tagged records [t |-> tag, v |-> payload].        *)
(* Numbers are integers; the numbers of the two opacity slices are in      *)
(* hundredths (0.6 is 60, 1 is 100, 1.5 is 150, 0.05 is 5).                *)
(* A localStorage item is a text: a JSON tree (tags "jnull", "jbool",      *)
(* "jnum", "jstr", "jarr", "jobj") or a raw text that is not JSON.         *)
(***************************************************************************)
EXTENDS Integers, Sequences, FiniteSets, TLC

VARIABLES
  ls,         \* localStorage: storage key -> text, or NoItem
  alive,      \* a store has been constructed (createVigiloStore returned)
  overrides,  \* options.overrides of the last construction
  state,      \* the store's `state` (slice name -> value)
  hydrateThrew, \* the last construction threw instead of returning a store
  listeners,  \* the store's `listeners` Set, in insertion order
  react,      \* listener -> what its callback does at its next notification
  nCalls,     \* number of external mutator calls made so far
  prevState,  \* state before the last external mutator call
  prevLs,     \* localStorage before the last external mutator call
  subsAtCall, \* listeners subscribed when the last external call was made
  lastCall,   \* the last external mutator call
  notes,      \* notifications delivered during the last external call
  calls,      \* storage methods invoked during the last external call
  muts,       \* mutations applied during the last external call, in call order
  threw,      \* the last external mutator call threw to its caller
  loaded,     \* what loadState returned at the last construction
  last,       \* the operation performed last
  clean,      \* since a construction without overrides every call persisted
  roundTrip,  \* the last construction followed a clean store, with no overrides
  want,       \* slice -> the value given by the most recent mutator call on it
  lastW,      \* which setItem calls of the last external call succeeded
  readOk,     \* localStorage.getItem worked at the last construction
  clock,      \* Date.now()
  isDragging, \* the overlay's React state `isDragging`
  dragOffset, \* the overlay's React state `dragOffset`
  dirty,      \* the store's state changed since the overlay's last commit
  view,       \* what the overlay's last committed render saw
  effect,     \* the closure of the drag effect that is in place
  dragLog,    \* what the frames of the current drag did
  remote,     \* the remote API: its backend, and the store constructed over it
  paletteMounted, \* the module variable `paletteMounted` of the React package
  registry,   \* the instance registry: the records getPaletteInstances() returns
  page,       \* the Vigilo components of the page
  regLog,     \* the registry calls of the last step, each with its effect
  dom,        \* the elements of the document that selectors can match
  shown,      \* the storeState of the overlay's last committed render
  paint,      \* the connectors of that render, or that it threw
  selectingIndex, \* the overlay's React state `selectingIndex` (-1 for null)
  gest,       \* the connect operation performed last
  hookStore,  \* the store of a useVigiloInstance() hook
  undo,       \* the overlay's undo snapshot and its timer
  server,     \* the server: the connections table and the requests in progress
  search      \* the overlay's search query and what a row action addressed

\* The variables of a page of Vigilo components
pageVars == <<paletteMounted, registry, page, regLog>>

\* The variables of the store's surroundings: the overlay component, the
\* remote adapter and the page
\* The variables of the overlay's rendering and connect gesture
anchorVars == <<dom, shown, paint, selectingIndex, gest>>

\* The variables of programmatic access, undo, the server and the search
sideVars == <<hookStore, undo, server, search>>

uiVars == <<clock, isDragging, dragOffset, dirty, view, effect, dragLog, remote,
            pageVars, anchorVars, sideVars>>

vars == <<ls, alive, overrides, state, hydrateThrew, listeners, react, nCalls,
          prevState, prevLs, subsAtCall, lastCall, notes, calls, muts, threw,
          loaded, last, clean, roundTrip, want, lastW,
          readOk, uiVars>>

-----------------------------------------------------------------------------
(* JavaScript values *)

Undef == [t |-> "undefined", v |-> 0]
Null == [t |-> "null", v |-> 0]
NaN == [t |-> "nan", v |-> 0]
Bool(b) == [t |-> "boolean", v |-> b]
Num(n) == [t |-> "number", v |-> n]
Str(s) == [t |-> "string", v |-> s]
Arr(seq) == [t |-> "array", v |-> seq]
Obj(f) == [t |-> "object", v |-> f]
MapV(f) == [t |-> "map", v |-> f]

EmptyFcn == [k \in {} |-> Undef]

\* obj.key, undefined when the object has no such property
Get(f, k) == IF k \in DOMAIN f THEN f[k] ELSE Undef

\* ToBoolean
Truthy(val) ==
  CASE val.t \in {"undefined", "null", "nan"} -> FALSE
    [] val.t = "boolean" -> val.v
    [] val.t = "number" -> val.v # 0
    [] val.t = "string" -> val.v # ""
    [] OTHER -> TRUE

\* a ?? b
Nullish(val) == val.t \in {"undefined", "null"}
Coalesce(a, b) == IF Nullish(a) THEN b ELSE a

\* Number.prototype.toString for the task indices of the model
toString(i) ==
  CASE i = 0 -> "0" [] i = 1 -> "1" [] i = 2 -> "2" [] i = 3 -> "3"
    [] i = 4 -> "4" [] i = -1 -> "-1"

\* parseInt(key, 10) for the property names of the model
parseInt(s) ==
  CASE s = "0" -> Num(0) [] s = "1" -> Num(1) [] s = "2" -> Num(2)
    [] s = "3" -> Num(3) [] s = "4" -> Num(4) [] s = "-1" -> Num(-1)
    [] s = "1.5" -> Num(1) [] s = "abc" -> NaN

-----------------------------------------------------------------------------
(* JSON.stringify and JSON.parse *)

NoItem == [t |-> "noitem", v |-> 0]
Raw(s) == [t |-> "raw", v |-> s]
JNull == [t |-> "jnull", v |-> 0]
JBool(b) == [t |-> "jbool", v |-> b]
JNum(n) == [t |-> "jnum", v |-> n]
JStr(s) == [t |-> "jstr", v |-> s]
JArr(seq) == [t |-> "jarr", v |-> seq]
JObj(f) == [t |-> "jobj", v |-> f]

\* A value JSON.stringify leaves out of an object (and writes as null in an array)
Unserializable(val) == val.t = "undefined"

RECURSIVE ToJSON(_)
ToJSON(val) ==
  CASE val.t \in {"null", "nan", "undefined"} -> JNull
    [] val.t = "boolean" -> JBool(val.v)
    [] val.t = "number" -> JNum(val.v)
    [] val.t = "string" -> JStr(val.v)
    [] val.t = "array" -> JArr([i \in DOMAIN val.v |-> ToJSON(val.v[i])])
    [] val.t = "object" ->
         JObj([k \in {q \in DOMAIN val.v : ~Unserializable(val.v[q])} |->
                 ToJSON(val.v[k])])
    [] val.t = "map" -> JObj(EmptyFcn)

\* localStorage.setItem(key, JSON.stringify(val)): the text that is stored.
\* JSON.stringify(undefined) is undefined, which setItem stores as "undefined".
Stringify(val) == IF val.t = "undefined" THEN Raw("undefined") ELSE ToJSON(val)

RECURSIVE FromJSON(_)
FromJSON(j) ==
  CASE j.t = "jnull" -> Null
    [] j.t = "jbool" -> Bool(j.v)
    [] j.t = "jnum" -> Num(j.v)
    [] j.t = "jstr" -> Str(j.v)
    [] j.t = "jarr" -> Arr([i \in DOMAIN j.v |-> FromJSON(j.v[i])])
    [] j.t = "jobj" -> Obj([k \in DOMAIN j.v |-> FromJSON(j.v[k])])

\* JSON.parse(text): [ok |-> FALSE] stands for a thrown SyntaxError
Parse(text) ==
  IF text.t = "raw" THEN [ok |-> FALSE, val |-> Undef]
  ELSE [ok |-> TRUE, val |-> FromJSON(text)]

-----------------------------------------------------------------------------
(* storage.ts: the localStorage adapter *)

STORAGE_PREFIX == "vigilo-state-"

\* A slip: the instance key is left out of the storage keys
createStorageKeysShared(instanceKey) ==
  [pos |-> STORAGE_PREFIX \o "pos",
   col |-> STORAGE_PREFIX \o "col",
   con |-> STORAGE_PREFIX \o "con",
   mode |-> STORAGE_PREFIX \o "mode",
   hidden |-> STORAGE_PREFIX \o "hidden",
   lines |-> STORAGE_PREFIX \o "lines",
   badges |-> STORAGE_PREFIX \o "badges",
   lineColor |-> STORAGE_PREFIX \o "lineColor",
   lineOpacity |-> STORAGE_PREFIX \o "lineOpacity",
   componentOpacity |-> STORAGE_PREFIX \o "componentOpacity",
   statuses |-> STORAGE_PREFIX \o "statuses"]

createStorageKeys(instanceKey) ==
  [pos |-> STORAGE_PREFIX \o "pos-" \o instanceKey,
   col |-> STORAGE_PREFIX \o "col-" \o instanceKey,
   con |-> STORAGE_PREFIX \o "con-" \o instanceKey,
   mode |-> STORAGE_PREFIX \o "mode-" \o instanceKey,
   hidden |-> STORAGE_PREFIX \o "hidden-" \o instanceKey,
   lines |-> STORAGE_PREFIX \o "lines-" \o instanceKey,
   badges |-> STORAGE_PREFIX \o "badges-" \o instanceKey,
   lineColor |-> STORAGE_PREFIX \o "lineColor-" \o instanceKey,
   lineOpacity |-> STORAGE_PREFIX \o "lineOpacity-" \o instanceKey,
   componentOpacity |-> STORAGE_PREFIX \o "componentOpacity-" \o instanceKey,
   statuses |-> STORAGE_PREFIX \o "statuses-" \o instanceKey]

KeyNames ==
  {"pos", "col", "con", "mode", "hidden", "lines", "badges", "lineColor",
   "lineOpacity", "componentOpacity", "statuses"}

\* `if (savedX)`: getItem returned a non-empty string
Present(text) == text.t # "noitem" /\ text # Raw("")

\* A slip: the parsed value, not the stored text, is tested for truthiness
LoadPlainTruthy(text, slice) ==
  IF Present(text) /\ Parse(text).ok /\ Truthy(Parse(text).val)
  THEN slice :> Parse(text).val
  ELSE EmptyFcn

\* try { state.slice = JSON.parse(saved) } catch {}
LoadPlain(text, slice) ==
  IF Present(text) /\ Parse(text).ok THEN slice :> Parse(text).val ELSE EmptyFcn

DisplayModes == {Str("full"), Str("compact"), Str("minimal")}

\* A slip: the legacy collapsed flag is read before the displayMode record
LoadModeLegacyFirst(savedMode, savedCol) ==
  IF Present(savedCol) /\ Parse(savedCol).ok
  THEN "displayMode" :>
         (IF Truthy(Parse(savedCol).val) THEN Str("compact") ELSE Str("full"))
  ELSE IF Present(savedMode) /\ Parse(savedMode).ok
            /\ Parse(savedMode).val \in DisplayModes
       THEN "displayMode" :> Parse(savedMode).val
       ELSE EmptyFcn

LoadMode(savedMode, savedCol) ==
  IF Present(savedMode)
  THEN IF Parse(savedMode).ok /\ Parse(savedMode).val \in DisplayModes
       THEN "displayMode" :> Parse(savedMode).val
       ELSE EmptyFcn
  ELSE IF Present(savedCol) /\ Parse(savedCol).ok
       THEN "displayMode" :>
              (IF Truthy(Parse(savedCol).val) THEN Str("compact") ELSE Str("full"))
       ELSE EmptyFcn

\* typeof opacity === 'number' && opacity >= 0 && opacity <= 1 (hundredths)
OpacityOk(val) == val.t = "number" /\ val.v >= 0 /\ val.v <= 100

LoadLineOpacity(text) ==
  IF Present(text) /\ Parse(text).ok /\ OpacityOk(Parse(text).val)
  THEN "lineOpacity" :> Parse(text).val
  ELSE EmptyFcn

ComponentOpacityOk(val) == val.t = "number" /\ val.v >= 0 /\ val.v <= 100

LoadComponentOpacity(text) ==
  IF Present(text) /\ Parse(text).ok /\ ComponentOpacityOk(Parse(text).val)
  THEN "componentOpacity" :> Parse(text).val
  ELSE EmptyFcn

TodoStatuses == {Str("todo"), Str("working"), Str("done")}

\* Object.entries(val) as a map from property name to value; every entry of a
\* string is a one-character string, written Str("char")
Entries(val) ==
  CASE val.t = "object" -> val.v
    [] val.t = "array" ->
         [k \in {toString(i - 1) : i \in DOMAIN val.v} |-> val.v[parseInt(k).v + 1]]
    [] val.t = "string" ->
         [k \in {toString(i - 1) : i \in 1..Len(val.v)} |-> Str("char")]
    [] val.t \in {"number", "boolean"} -> EmptyFcn

\* An integer-like property name: these come first in Object.entries
Canonical(k) == parseInt(k).t = "number" /\ toString(parseInt(k).v) = k

\* the loop of loadState over Object.entries(parsed): a later entry of the
\* same index overwrites an earlier one
StatusMap(e) ==
  LET valid == {k \in DOMAIN e : parseInt(k).t = "number" /\ e[k] \in TodoStatuses}
      late(i) == {k \in valid : parseInt(k).v = i /\ ~Canonical(k)}
  IN [i \in {parseInt(k).v : k \in valid} |->
        IF late(i) # {} THEN e[CHOOSE k \in late(i) : TRUE] ELSE e[toString(i)]]

LoadStatuses(text) ==
  IF Present(text) /\ Parse(text).ok /\ Parse(text).val.t # "null"
  THEN "statuses" :> MapV(StatusMap(Entries(Parse(text).val)))
  ELSE EmptyFcn

\* loadState(): the partial state read from localStorage `store`.
\* ~readable: localStorage.getItem itself throws (the outer catch).
loadState(store, keys, readable) ==
  IF ~readable THEN EmptyFcn
  ELSE LoadPlain(store[keys.pos], "position")
       @@ LoadPlain(store[keys.con], "connections")
       @@ LoadMode(store[keys.mode], store[keys.col])
       @@ LoadPlain(store[keys.hidden], "isHidden")
       @@ LoadPlain(store[keys.lines], "showLines")
       @@ LoadPlain(store[keys.badges], "showBadges")
       @@ LoadPlain(store[keys.lineColor], "lineColor")
       @@ LoadLineOpacity(store[keys.lineOpacity])
       @@ LoadComponentOpacity(store[keys.componentOpacity])
       @@ LoadStatuses(store[keys.statuses])

\* try { localStorage.setItem(key, JSON.stringify(val)) } catch { log }
\* ~writable: setItem throws (quota exceeded, storage disabled)
\* A slip: setItem outside any try / catch
SaveItemNoCatch(store, key, val, writable) ==
  IF writable
  THEN [store |-> [store EXCEPT ![key] = Stringify(val)], threw |-> FALSE]
  ELSE [store |-> store, threw |-> TRUE]

\* Returns the storage afterwards and whether the method threw to its caller.
SaveItem(store, key, val, writable) ==
  IF writable
  THEN [store |-> [store EXCEPT ![key] = Stringify(val)], threw |-> FALSE]
  ELSE [store |-> store, threw |-> FALSE]

\* saveStatuses: statusObj[idx.toString()] = stat, then stringify statusObj
StatusObj(m) ==
  Obj([k \in {toString(i) : i \in DOMAIN m.v} |-> m.v[parseInt(k).v]])

\* Which key each save method writes
SaveKey(keys, method) ==
  CASE method = "savePosition" -> keys.pos
    [] method = "saveConnections" -> keys.con
    [] method = "saveDisplayMode" -> keys.mode
    [] method = "saveHidden" -> keys.hidden
    [] method = "saveShowLines" -> keys.lines
    [] method = "saveShowBadges" -> keys.badges
    [] method = "saveLineColor" -> keys.lineColor
    [] method = "saveLineOpacity" -> keys.lineOpacity
    [] method = "saveComponentOpacity" -> keys.componentOpacity
    [] method = "saveStatuses" -> keys.statuses

\* storage.save<Slice>(val)
Save(store, keys, method, val, writable) ==
  SaveItem(store, SaveKey(keys, method),
           IF method = "saveStatuses" THEN StatusObj(val) ELSE val, writable)

-----------------------------------------------------------------------------
(* state.ts *)

DEFAULT_POSITION == Obj([x |-> Num(20), y |-> Num(20)])
DEFAULT_LINE_COLOR == Str("#3b82f6")
DEFAULT_LINE_OPACITY == 60
DEFAULT_COMPONENT_OPACITY == 100

SliceNames ==
  {"position", "connections", "displayMode", "isHidden", "showLines",
   "showBadges", "lineColor", "lineOpacity", "componentOpacity", "statuses"}

\* { ...val }
SpreadObj(val) ==
  CASE val.t = "object" -> val
    [] val.t = "array" ->
         Obj([k \in {toString(i - 1) : i \in DOMAIN val.v} |-> val.v[parseInt(k).v + 1]])
    [] val.t = "string" ->
         Obj([k \in {toString(i - 1) : i \in 1..Len(val.v)} |-> Str("char")])
    [] val.t \in {"number", "boolean", "map"} -> Obj(EmptyFcn)

\* [ ...val ] is defined for iterables only; otherwise a TypeError is thrown
Iterable(val) == val.t \in {"array", "string", "map"}
SpreadArr(val) ==
  CASE val.t = "array" -> val
    [] val.t = "string" -> Arr([i \in 1..Len(val.v) |-> Str("char")])
    [] val.t = "map" /\ DOMAIN val.v = {} -> Arr(<<>>)

\* new Map(val) for a Map or an empty array; other truthy values throw
MapCopyOk(val) == val.t = "map" \/ val = Arr(<<>>)
MapCopy(val) == IF val.t = "map" THEN val ELSE MapV(EmptyFcn)

\* createDefaultState(overrides): [ok |-> FALSE] stands for a thrown TypeError
createDefaultState(o) ==
  LET pos == Get(o, "position")
      con == Get(o, "connections")
      sts == Get(o, "statuses")
  IN IF (Truthy(con) /\ ~Iterable(con)) \/ (Truthy(sts) /\ ~MapCopyOk(sts))
     THEN [ok |-> FALSE, state |-> EmptyFcn]
     ELSE [ok |-> TRUE,
           state |->
             [position |-> IF Truthy(pos) THEN SpreadObj(pos) ELSE DEFAULT_POSITION,
              connections |-> IF Truthy(con) THEN SpreadArr(con) ELSE Arr(<<>>),
              displayMode |-> Coalesce(Get(o, "displayMode"), Str("full")),
              isHidden |-> Coalesce(Get(o, "isHidden"), Bool(FALSE)),
              showLines |-> Coalesce(Get(o, "showLines"), Bool(TRUE)),
              showBadges |-> Coalesce(Get(o, "showBadges"), Bool(TRUE)),
              lineColor |-> Coalesce(Get(o, "lineColor"), DEFAULT_LINE_COLOR),
              lineOpacity |-> Coalesce(Get(o, "lineOpacity"), Num(DEFAULT_LINE_OPACITY)),
              componentOpacity |->
                Coalesce(Get(o, "componentOpacity"), Num(DEFAULT_COMPONENT_OPACITY)),
              statuses |-> IF Truthy(sts) THEN MapCopy(sts) ELSE MapV(EmptyFcn)]]

\* What an async method returns: a Promise, here with the value it resolves to
PromiseOf(x) == [t |-> "promise", v |-> x]

\* The own enumerable properties of what loadState returned, which are what
\* { ...saved } and saved.statuses read: a Promise has none
OwnProps(saved) == IF "t" \in DOMAIN saved THEN EmptyFcn ELSE saved

\* A slip: the spreads in the wrong order, { ...overrides, ...saved }
hydrateStateSavedWins(saved, o) ==
  createDefaultState(
    ("statuses" :> Coalesce(Get(o, "statuses"), Get(saved, "statuses")))
      @@ saved @@ o)

\* hydrateState(storage, overrides), given what storage.loadState() returned
hydrateState(saved, o) ==
  createDefaultState(
    ("statuses" :> Coalesce(Get(o, "statuses"), Get(OwnProps(saved), "statuses")))
      @@ o @@ OwnProps(saved))

-----------------------------------------------------------------------------
(* store.ts *)

\* A mutator call: op(arg), setStatus(index, arg), setPosition(arg, {persist})
MkCall(op, arg, index, persist) ==
  [op |-> op, arg |-> arg, index |-> index, persist |-> persist]
NoCall == MkCall("none", Undef, 0, Undef)

\* What a listener callback does when it is invoked: nothing but read the
\* state, call a mutator, or subscribe / unsubscribe a listener
Idle == [kind |-> "idle", call |-> NoCall, who |-> 0]
DoCall(c) == [kind |-> "call", call |-> c, who |-> 0]
DoUnsub(l) == [kind |-> "unsub", call |-> NoCall, who |-> l]
DoSub(l) == [kind |-> "sub", call |-> NoCall, who |-> l]

\* The slice a mutator updates
SliceOf(op) ==
  CASE op = "setPosition" -> "position"
    [] op = "setConnections" -> "connections"
    [] op = "setDisplayMode" -> "displayMode"
    [] op = "setHidden" -> "isHidden"
    [] op = "setShowLines" -> "showLines"
    [] op = "setShowBadges" -> "showBadges"
    [] op = "setLineColor" -> "lineColor"
    [] op = "setLineOpacity" -> "lineOpacity"
    [] op = "setComponentOpacity" -> "componentOpacity"
    [] op \in {"setStatuses", "setStatus", "resetStatuses"} -> "statuses"

\* A slip: setShowBadges delegates to saveShowLines
SaveMethodOfPasted(op) ==
  CASE op = "setPosition" -> "savePosition"
    [] op = "setConnections" -> "saveConnections"
    [] op = "setDisplayMode" -> "saveDisplayMode"
    [] op = "setHidden" -> "saveHidden"
    [] op \in {"setShowLines", "setShowBadges"} -> "saveShowLines"
    [] op = "setLineColor" -> "saveLineColor"
    [] op = "setLineOpacity" -> "saveLineOpacity"
    [] op = "setComponentOpacity" -> "saveComponentOpacity"
    [] op \in {"setStatuses", "setStatus", "resetStatuses"} -> "saveStatuses"

\* The storage method a mutator delegates to
SaveMethodOf(op) ==
  CASE op = "setPosition" -> "savePosition"
    [] op = "setConnections" -> "saveConnections"
    [] op = "setDisplayMode" -> "saveDisplayMode"
    [] op = "setHidden" -> "saveHidden"
    [] op = "setShowLines" -> "saveShowLines"
    [] op = "setShowBadges" -> "saveShowBadges"
    [] op = "setLineColor" -> "saveLineColor"
    [] op = "setLineOpacity" -> "saveLineOpacity"
    [] op = "setComponentOpacity" -> "saveComponentOpacity"
    [] op \in {"setStatuses", "setStatus", "resetStatuses"} -> "saveStatuses"

\* setStatus: next = new Map(state.statuses); next.set(index, status)
\* resetStatuses: new Map(); the other mutators pass their argument on
ArgOf(st, c) ==
  CASE c.op = "setStatus" -> MapV((c.index :> c.arg) @@ st["statuses"].v)
    [] c.op = "resetStatuses" -> MapV(EmptyFcn)
    [] OTHER -> c.arg

\* The value a mutator hands to update(): a copy of the argument
PartialOf(st, c) ==
  CASE c.op = "setPosition" -> SpreadObj(c.arg)
    [] c.op = "setConnections" -> SpreadArr(c.arg)
    [] c.op \in {"setStatuses", "setStatus", "resetStatuses"} -> MapCopy(ArgOf(st, c))
    [] OTHER -> c.arg

\* A slip: if (!options?.persist) return
SkipsSaveFalsy(c) == c.op = "setPosition" /\ ~Truthy(c.persist)

\* setPosition: if (options?.persist === false) return
SkipsSave(c) == c.op = "setPosition" /\ c.persist = Bool(FALSE)

\* listeners.delete(l): the entry is emptied, so a running forEach skips it
SetDelete(lst, l) == [i \in DOMAIN lst |-> IF lst[i] = l THEN 0 ELSE lst[i]]
\* listeners.add(l): appended unless present
SetAdd(lst, l) ==
  IF \E i \in DOMAIN lst : lst[i] = l THEN lst ELSE Append(lst, l)
\* The entries of the Set, in insertion order
SetEntries(lst) == SelectSeq(lst, LAMBDA e : e # 0)
SetMembers(lst) == {lst[i] : i \in DOMAIN lst} \ {0}

\* The machine threaded through one external mutator call:
\*   st the store's state, store localStorage, lst the listeners Set,
\*   react the listeners' pending behaviour, n the number of mutations so far,
\*   notes / calls / muts the notifications, storage calls and mutations made
RECURSIVE RunCall(_, _, _, _), EmitFrom(_, _, _, _, _)

\* One listener is invoked while mutation `id` is being announced
Notify(m, l, id, keys, w) ==
  LET r == m.react[l]
      m1 == [m EXCEPT !.notes = Append(@, [l |-> l, mut |-> id, seen |-> m.st]),
                      !.react[l] = Idle]
  IN CASE r.kind = "idle" -> m1
       [] r.kind = "call" -> RunCall(m1, r.call, keys, w)
       [] r.kind = "unsub" -> [m1 EXCEPT !.lst = SetDelete(@, r.who)]
       [] r.kind = "sub" -> [m1 EXCEPT !.lst = SetAdd(@, r.who)]

\* emit(): listeners.forEach((listener) => listener()), from entry i on.
\* forEach visits entries added during the walk and skips emptied ones.
EmitFrom(m, i, id, keys, w) ==
  IF m.threw \/ i > Len(m.lst) THEN m
  ELSE IF m.lst[i] = 0 THEN EmitFrom(m, i + 1, id, keys, w)
  ELSE EmitFrom(Notify(m, m.lst[i], id, keys, w), i + 1, id, keys, w)

\* storage.save<Slice>(arg) of the local adapter; w[k] tells whether the
\* setItem of the k-th mutation of this external call succeeds
StorageSave(m, method, arg, keys, writable) ==
  LET r == Save(m.store, keys, method, arg, writable)
  IN [m EXCEPT !.store = r.store, !.threw = r.threw,
               !.calls = Append(@, [method |-> method, val |-> arg])]

\* A mutator: update(partial) = setState({...state, ...partial}) = assign and
\* emit(), then the save unless skipped
RunCall(m, c, keys, w) ==
  LET id == m.n + 1
      arg == ArgOf(m.st, c)
      next == [m.st EXCEPT ![SliceOf(c.op)] = PartialOf(m.st, c)]
      m1 == [m EXCEPT !.n = id, !.st = next,
                      !.muts = Append(@, [id |-> id, op |-> c.op, after |-> next])]
      m2 == EmitFrom(m1, 1, id, keys, w)
  IN IF m2.threw \/ SkipsSave(c) THEN m2
     ELSE StorageSave(m2, SaveMethodOf(c.op), arg, keys, w[id])

-----------------------------------------------------------------------------
(* Bounds and the inputs of the model *)

MaxRecords == 2    \* items put into localStorage before a store is constructed
MaxCalls == 2      \* external mutator calls in one behaviour

InstanceKey == "app"
Keys == createStorageKeys(InstanceKey)
AllStorageKeys == {Keys[k] : k \in KeyNames}

Listeners == {1, 2}

\* Mutations one external call can trigger, itself included: every listener
\* calls a mutator at most once
MaxNested == Cardinality(Listeners) + 1

Pos1 == Obj([x |-> Num(1), y |-> Num(2)])
Pos2 == Obj([x |-> Num(300), y |-> Num(0)])
ConnA == Obj([todoIndex |-> Num(0), targetSelector |-> Str("#a"), targetLabel |-> Str("A")])
ConnB == Obj([todoIndex |-> Num(1), targetPosition |-> Pos1])
ConnA2 == Obj([todoIndex |-> Num(0), targetSelector |-> Str("#b")])
Statuses1 == MapV(0 :> Str("done"))
Statuses2 == MapV((0 :> Str("todo")) @@ (1 :> Str("working")))

\* Values of each slice's declared domain (types.ts) used as mutator
\* arguments, overrides and valid stored records
DomainVals(slice) ==
  CASE slice = "position" -> {Pos1, Pos2}
    [] slice = "connections" -> {Arr(<<ConnA>>), Arr(<<ConnB, ConnA2>>)}
    [] slice = "displayMode" -> {Str("compact"), Str("minimal")}
    [] slice = "isHidden" -> {Bool(TRUE), Bool(FALSE)}
    [] slice = "showLines" -> {Bool(FALSE)}
    [] slice = "showBadges" -> {Bool(FALSE)}
    [] slice = "lineColor" -> {Str("#fff"), Str("")}
    [] slice = "lineOpacity" -> {Num(0), Num(30)}
    [] slice = "componentOpacity" -> {Num(10)}
    [] slice = "statuses" -> {Statuses1, Statuses2}

\* An array with two connections of task 0
ConnDup == Arr(<<ConnA, ConnA2>>)

\* The slice a storage key name holds
SliceOfKey(k) ==
  CASE k = "pos" -> "position" [] k = "con" -> "connections"
    [] k = "mode" -> "displayMode" [] k = "hidden" -> "isHidden"
    [] k = "lines" -> "showLines" [] k = "badges" -> "showBadges"
    [] k = "lineColor" -> "lineColor" [] k = "lineOpacity" -> "lineOpacity"
    [] k = "componentOpacity" -> "componentOpacity" [] k = "statuses" -> "statuses"

\* The text a store writes for a value of the slice
ValidText(slice, val) ==
  IF slice = "statuses" THEN Stringify(StatusObj(val)) ELSE Stringify(val)

\* Texts that are not the record of any value of the slice
BadTexts(k) ==
  {Raw(""), Raw("{oops"), JNull}
    \cup (CASE k = "pos" -> {JNum(5)}
            [] k = "con" -> {JNum(5)}
            [] k = "mode" -> {JStr("abc")}
            [] k = "col" -> {}
            [] k \in {"hidden", "lines", "badges"} -> {JStr("abc")}
            [] k = "lineColor" -> {JNum(5)}
            [] k = "lineOpacity" -> {JNum(150), JNum(-10), JStr("abc")}
            [] k = "componentOpacity" -> {JNum(150), JNum(5), JNum(0), JStr("abc")}
            [] k = "statuses" ->
                 {JNum(5), JStr("abc"), JArr(<<JStr("todo")>>),
                  JObj([k2 \in {"1", "abc", "2", "1.5"} |->
                          CASE k2 = "1" -> JStr("todo") [] k2 = "abc" -> JStr("done")
                            [] k2 = "2" -> JStr("bogus") [] k2 = "1.5" -> JStr("working")])})

\* What localStorage may hold under a key
TextsFor(k) ==
  BadTexts(k)
    \cup (IF k = "col" THEN {JBool(TRUE), JBool(FALSE)}
          ELSE {ValidText(SliceOfKey(k), val) : val \in DomainVals(SliceOfKey(k))})

\* overrides given to createVigiloStore: none, or one or two slices
OverrideChoices ==
  {EmptyFcn}
    \cup UNION {{s :> val : val \in DomainVals(s)} : s \in SliceNames}
    \cup {("lineColor" :> Str("#fff")) @@ ("isHidden" :> Bool(TRUE))}

Persists == {Undef, Bool(TRUE), Bool(FALSE)}

SetterOf(slice) ==
  CASE slice = "position" -> "setPosition"
    [] slice = "connections" -> "setConnections"
    [] slice = "displayMode" -> "setDisplayMode"
    [] slice = "isHidden" -> "setHidden"
    [] slice = "showLines" -> "setShowLines"
    [] slice = "showBadges" -> "setShowBadges"
    [] slice = "lineColor" -> "setLineColor"
    [] slice = "lineOpacity" -> "setLineOpacity"
    [] slice = "componentOpacity" -> "setComponentOpacity"
    [] slice = "statuses" -> "setStatuses"

\* The value of each slice's domain that the mutator calls of the model pass:
\* not the default, and falsy where the domain has a falsy value
CallVals(slice) ==
  CASE slice = "connections" -> {Arr(<<ConnA>>), Arr(<<ConnB, ConnA2>>)}
    [] slice = "displayMode" -> {Str("minimal")}
    [] slice = "isHidden" -> {Bool(TRUE), Bool(FALSE)}
    [] slice = "showLines" -> {Bool(FALSE)}
    [] slice = "showBadges" -> {Bool(FALSE)}
    [] slice = "lineColor" -> {Str("")}
    [] slice = "lineOpacity" -> {Num(0)}
    [] slice = "componentOpacity" -> {Num(10)}
    [] slice = "statuses" -> {Statuses2}

\* The mutator calls of the model, arguments inside the declared domains
DomainCalls ==
  {MkCall("setPosition", Pos1, 0, ps) : ps \in Persists}
    \cup {MkCall("setPosition", Pos2, 0, Bool(FALSE))}
    \cup UNION {{MkCall(SetterOf(s), val, 0, Undef) : val \in CallVals(s)} :
                  s \in SliceNames \ {"position"}}
    \cup {MkCall("setStatus", Str("working"), i, Undef) : i \in {0, 2}}
    \cup {MkCall("resetStatuses", Undef, 0, Undef)}

\* setConnections accepts any array
AllCalls == DomainCalls \cup {MkCall("setConnections", ConnDup, 0, Undef)}

-----------------------------------------------------------------------------
(* The remote API adapter (createApiVigiloStorage) *)

\* GET {baseUrl}/state/{instanceId}: 404 when the backend holds no state of
\* the instance, else 200 with the persisted values
Respond(backend) ==
  IF DOMAIN backend = {} THEN [status |-> 404, data |-> EmptyFcn]
  ELSE [status |-> 200, data |-> backend]

\* What the body of the adapter's loadState evaluates to
ApiLoaded(response) ==
  IF response.status # 200 THEN EmptyFcn
  ELSE LET data == response.data
       IN [s \in SliceNames |->
             CASE s = "connections" ->
                    IF Truthy(Get(data, s)) THEN Get(data, s) ELSE Arr(<<>>)
               [] s = "statuses" ->
                    IF Truthy(Get(data, s)) THEN MapCopy(Get(data, s)) ELSE MapV(EmptyFcn)
               [] OTHER -> Get(data, s)]

\* async loadState(): the caller gets a Promise of that value
apiLoadState(response) == PromiseOf(ApiLoaded(response))

\* No backend state, no store constructed over the remote adapter
NoRemote == [backend |-> EmptyFcn, made |-> FALSE, overrides |-> EmptyFcn,
             state |-> EmptyFcn]

-----------------------------------------------------------------------------
(* The instance registry and the Vigilo components of a page *)

\* A slip: a published record is added without replacing the key's record
updatePaletteInstanceAppends(reg, key, snapshot) ==
  IF snapshot = Null THEN SelectSeq(reg, LAMBDA r : r.v.instanceKey # key)
  ELSE Append(reg, snapshot)

\* removeInstance(key): the key's record is dropped
removePaletteInstance(reg, key) == SelectSeq(reg, LAMBDA r : r.v.instanceKey # key)

\* updateInstance(key, snapshot): upsert; with null the same as removeInstance
updatePaletteInstance(reg, key, snapshot) ==
  IF snapshot = Null THEN removePaletteInstance(reg, key)
  ELSE IF \E i \in DOMAIN reg : reg[i].v.instanceKey = key
       THEN [i \in DOMAIN reg |-> IF reg[i].v.instanceKey = key THEN snapshot ELSE reg[i]]
       ELSE Append(reg, snapshot)

\* getInstances(): the full current list
getPaletteInstances(reg) == reg

\* The `categories` prop of the page's components
Categories ==
  <<[id |-> "dev", displayName |-> "Dev tasks", items |-> <<"fix header", "add tests">>],
    [id |-> "ops", displayName |-> "", items |-> <<"rotate keys">>]>>

\* categories.find((c) => c.id === category), Undef when there is none
categoryData(category) ==
  IF \E i \in DOMAIN Categories : Categories[i].id = category
  THEN Categories[CHOOSE i \in DOMAIN Categories : Categories[i].id = category]
  ELSE Undef

\* instanceId || category
instanceKeyOf(props) == IF props.instanceId # "" THEN props.instanceId ELSE props.category

\* connectionsByIndex.has(idx)
HasConnection(connections, idx) ==
  \E n \in DOMAIN connections.v : Get(connections.v[n].v, "todoIndex") = Num(idx)

\* The record the publishing effect builds from the rendered store state
\* (the callbacks of the record are left out)
Snapshot(key, cat, seen) ==
  Obj([instanceKey |-> key,
       categoryId |-> cat.id,
       label |-> IF cat.displayName # "" THEN cat.displayName ELSE cat.id,
       hidden |-> seen["isHidden"],
       totalTasks |-> Len(cat.items),
       connectedCount |-> Len(seen["connections"].v),
       tasks |-> [n \in DOMAIN cat.items |->
                    [id |-> key \o "-" \o toString(n - 1),
                     index |-> n - 1,
                     text |-> cat.items[n],
                     status |-> IF (n - 1) \in DOMAIN seen["statuses"].v
                                THEN seen["statuses"].v[n - 1] ELSE Str("todo"),
                     hasConnection |-> HasConnection(seen["connections"], n - 1)]]])

\* The components of the page
Overlays == {1, 2}

\* The props a component is given: category and instanceId
PropsChoices ==
  {[category |-> "dev", instanceId |-> ""], [category |-> "dev", instanceId |-> "k1"],
   [category |-> "gone", instanceId |-> "k2"], [category |-> "ops", instanceId |-> ""]}

\* What the local adapter holds for an instance when its store is constructed
SavedChoices == {EmptyFcn, "isHidden" :> Bool(TRUE)}

\* The mutator calls made on the stores of the page
PageCalls ==
  {MkCall("setHidden", Bool(TRUE), 0, Undef), MkCall("setHidden", Bool(FALSE), 0, Undef),
   MkCall("setConnections", Arr(<<ConnA>>), 0, Undef)}

\* primaryLineColor, and createDefaultState({ lineColor: primaryLineColor })
ThemeOverrides == "lineColor" :> Str("#fff")
defaultState == createDefaultState(ThemeOverrides).state

\* update(partial): the state after a mutator call
Updated(st, c) == [st EXCEPT ![SliceOf(c.op)] = PartialOf(st, c)]

\* A component that is not mounted. Of a mounted one: `st` is its store's
\* state, `seen` the storeState of its last committed render, `stale` tells
\* that a render is scheduled, `fresh` that the connections array or the
\* statuses Map of the store is not the object of the last committed render
Unmounted ==
  [mounted |-> FALSE, enabled |-> FALSE, props |-> [category |-> "", instanceId |-> ""],
   shouldRenderPalette |-> FALSE, st |-> EmptyFcn, seen |-> EmptyFcn, stale |-> FALSE,
   fresh |-> FALSE]

\* <VigiloCore> is rendered by the component
Core(o) == o.mounted /\ o.enabled

\* A registry call of a commit, recorded with the registry before and after
RegCall(pm, op, key, snapshot) ==
  LET after == IF op = "remove" THEN removePaletteInstance(pm.registry, key)
               ELSE updatePaletteInstance(pm.registry, key, snapshot)
  IN [pm EXCEPT !.registry = after,
                !.log = Append(@, [op |-> op, key |-> key, snapshot |-> snapshot,
                                   before |-> pm.registry, after |-> after])]

\* The publishing effect of VigiloCore
Publish(pm, i) ==
  LET o == pm.page[i]
      cat == categoryData(o.props.category)
  IN IF cat = Undef THEN RegCall(pm, "update", instanceKeyOf(o.props), Null)
     ELSE RegCall(pm, "update", instanceKeyOf(o.props),
                  Snapshot(instanceKeyOf(o.props), cat, o.seen))

\* A slip: the effect has no cleanup
CleanupKeepsRecord(pm, key) == pm

\* The cleanup () => removePaletteInstance(instanceKey)
Cleanup(pm, key) == RegCall(pm, "remove", key, Null)

\* VigiloCore mounts: its store is constructed over `saved`, the first render
\* shows defaultState, the effects run and a render with the store's state
\* is scheduled
CoreMount(pm, i, saved) ==
  Publish([pm EXCEPT !.page[i].st = hydrateState(saved, ThemeOverrides).state,
                     !.page[i].seen = defaultState,
                     !.page[i].stale = TRUE,
                     !.page[i].fresh = TRUE], i)

\* VigiloCore unmounts
CoreUnmount(pm, i) ==
  LET pm1 == Cleanup(pm, instanceKeyOf(pm.page[i].props))
  IN [pm1 EXCEPT !.page[i].st = EmptyFcn, !.page[i].seen = EmptyFcn,
                 !.page[i].stale = FALSE, !.page[i].fresh = FALSE]

\* Vigilo: useState(paletteMounted) at render (the flag was flag0), then the
\* effect that claims the palette
PaletteEffect(pm, i, flag0) ==
  IF ~pm.paletteMounted
  THEN [pm EXCEPT !.paletteMounted = TRUE, !.page[i].shouldRenderPalette = TRUE]
  ELSE [pm EXCEPT !.page[i].shouldRenderPalette = flag0]

\* One component of a commit mounts: the effects of its VigiloCore run before
\* its own
MountOne(pm, i, props, enabled, saved, flag0) ==
  LET pm1 == [pm EXCEPT !.page[i] = [Unmounted EXCEPT !.mounted = TRUE,
                                                     !.enabled = enabled,
                                                     !.props = props]]
      pm2 == IF enabled THEN CoreMount(pm1, i, saved) ELSE pm1
  IN PaletteEffect(pm2, i, flag0)

\* The components of S mount in one commit, in tree order
RECURSIVE MountAll(_, _, _, _, _, _)
MountAll(pm, S, pr, en, sv, flag0) ==
  IF S = {} THEN pm
  ELSE LET i == CHOOSE j \in S : \A k \in S : j <= k
       IN MountAll(MountOne(pm, i, pr[i], en[i], sv[i], flag0), S \ {i}, pr, en, sv, flag0)

\* No component is mounted, the registry is empty
PageIdle ==
  /\ paletteMounted = FALSE
  /\ registry = <<>>
  /\ page = [i \in Overlays |-> Unmounted]
  /\ regLog = <<>>

-----------------------------------------------------------------------------
(* The overlay component: connectors and the connect gesture *)

MaxOps == 2        \* operations of the overlay that call its store, in one behaviour

\* The elements a page may hold, by the selector generateSelector gives them
Elements == {"#a", "#b"}

\* The elements that come and go with the route; the others stay
RoutedElements == {"#a"}

\* A selector that is not valid CSS
BadSelector == "#1bad"

\* document.querySelector(selector): a SyntaxError for an invalid selector,
\* else the matching element or null
querySelector(selector, doc) ==
  IF selector \notin Elements THEN [threw |-> TRUE, el |-> Null]
  ELSE [threw |-> FALSE, el |-> IF selector \in doc THEN Str(selector) ELSE Null]

\* The task rows rendered in the panel for a display mode
RowsShown(mode) ==
  CASE mode = Str("full") -> {0, 1}
    [] mode = Str("compact") -> {0}
    [] OTHER -> {}

\* A slip: the connector of a target that is not found is drawn to the
\* initial end point
ConnectorNoMissCheck(conn, seen, doc) ==
  IF Get(conn.v, "todoIndex").v \notin RowsShown(seen["displayMode"])
  THEN [threw |-> FALSE, drawn |-> FALSE]
  ELSE IF Truthy(Get(conn.v, "targetPosition")) THEN [threw |-> FALSE, drawn |-> TRUE]
  ELSE IF Truthy(Get(conn.v, "targetSelector"))
       THEN [threw |-> querySelector(Get(conn.v, "targetSelector").v, doc).threw,
             drawn |-> ~querySelector(Get(conn.v, "targetSelector").v, doc).threw]
  ELSE [threw |-> FALSE, drawn |-> TRUE]

\* renderLines, one connection: whether its connector is drawn, or the
\* callback threw
Connector(conn, seen, doc) ==
  IF Get(conn.v, "todoIndex").v \notin RowsShown(seen["displayMode"])
  THEN [threw |-> FALSE, drawn |-> FALSE]
  ELSE IF Truthy(Get(conn.v, "targetPosition")) THEN [threw |-> FALSE, drawn |-> TRUE]
  ELSE IF Truthy(Get(conn.v, "targetSelector"))
       THEN LET q == querySelector(Get(conn.v, "targetSelector").v, doc)
            IN [threw |-> q.threw, drawn |-> ~q.threw /\ q.el # Null]
  ELSE [threw |-> FALSE, drawn |-> TRUE]

\* The render of the overlay: nothing when hidden, renderLines() when lines
\* are shown or a target is being selected; `drawn` holds the positions in
\* the connections list of the connectors drawn
RenderLines(seen, doc, selecting) ==
  LET conns == seen["connections"].v
      on == ~Truthy(seen["isHidden"])
              /\ (Truthy(seen["showLines"]) \/ selecting # -1)
              /\ Truthy(seen["showLines"])
      raised == on /\ \E n \in DOMAIN conns : Connector(conns[n], seen, doc).threw
  IN [threw |-> raised,
      drawn |-> IF on /\ ~raised
                THEN {n \in DOMAIN conns : Connector(conns[n], seen, doc).drawn}
                ELSE {}]

\* The connection the click of the connect gesture makes for task i:
\* a free position, or the clicked element's selector and label
NewConn(i, target) ==
  IF target = "body"
  THEN Obj([todoIndex |-> Num(i), targetPosition |-> Pos1])
  ELSE Obj([todoIndex |-> Num(i), targetSelector |-> Str(target),
            targetLabel |-> Str("label")])

\* connections.filter((c) => c.todoIndex !== i), then push(newConn)
ClickNext(connections, i, newConn) ==
  Arr(Append(SelectSeq(connections.v, LAMBDA c : Get(c.v, "todoIndex") # Num(i)),
             newConn))

\* addConnection's new connection for a selector string or a position
HookConn(i, target) ==
  IF target = "body"
  THEN Obj([todoIndex |-> Num(i), targetPosition |-> Pos1, targetLabel |-> Undef])
  ELSE Obj([todoIndex |-> Num(i), targetSelector |-> Str(target), targetLabel |-> Undef])

\* addConnection: findIndex, then replace at that index or push
HookNext(connections, i, newConn) ==
  LET cs == connections.v
      hits == {n \in DOMAIN cs : Get(cs[n].v, "todoIndex") = Num(i)}
  IN IF hits # {}
     THEN Arr([cs EXCEPT ![CHOOSE n \in hits : \A k \in hits : n <= k] = newConn])
     ELSE Arr(Append(cs, newConn))

\* A slip: the edited connection keeps its selector and label
EditNextKeepsSelector(connections, j, p) ==
  LET cs == connections.v
      hits == {n \in DOMAIN cs : Get(cs[n].v, "todoIndex") = Num(j)}
      conn == cs[CHOOSE n \in hits : \A k \in hits : n <= k]
      updated == Obj(("targetPosition" :> p) @@ conn.v)
  IN Arr(Append(SelectSeq(cs, LAMBDA c : Get(c.v, "todoIndex") # Num(j)), updated))

\* onMove of the connection point editing effect, the pointer at p: the
\* connection found for task j gets targetPosition p and loses its selector
\* and label, and is moved to the end of the list
EditNext(connections, j, p) ==
  LET cs == connections.v
      hits == {n \in DOMAIN cs : Get(cs[n].v, "todoIndex") = Num(j)}
      conn == cs[CHOOSE n \in hits : \A k \in hits : n <= k]
      kept == IF Truthy(Get(conn.v, "targetSelector"))
              THEN DOMAIN conn.v \ {"targetSelector", "targetLabel"}
              ELSE DOMAIN conn.v
      updated == Obj(("targetPosition" :> p) @@ [k \in kept |-> conn.v[k]])
  IN Arr(Append(SelectSeq(cs, LAMBDA c : Get(c.v, "todoIndex") # Num(j)), updated))

\* The connections arrays handed to setConnections by an import or another
\* caller: a well-formed one, one with two connections of task 0, one with a
\* selector that is not valid CSS
ConnBad == Obj([todoIndex |-> Num(1), targetSelector |-> Str(BadSelector)])
ImportedConnections == {Arr(<<ConnA>>), ConnDup, Arr(<<ConnA, ConnBad>>)}

\* The arguments addConnection is called with
HookArgs ==
  {[index |-> 0, target |-> "#b"], [index |-> 0, target |-> "body"],
   [index |-> 1, target |-> "#b"]}

NoGesture == [index |-> -1, conn |-> Undef, ops |-> 0]

\* The overlay before its first render
AnchorIdle ==
  /\ dom = Elements \ RoutedElements
  /\ shown = EmptyFcn
  /\ paint = [threw |-> FALSE, drawn |-> {}, missed |-> {}, redrawn |-> {}]
  /\ selectingIndex = -1
  /\ gest = NoGesture

-----------------------------------------------------------------------------
(* The overlay component (Vigilo for React): the drag effect *)

MaxMoves == 3      \* pointer moves processed in one behaviour
MaxTicks == 2      \* advances of the clock in one behaviour

SAVE_THROTTLE == 100

\* The clock advances in steps of half the throttle window, from a time that
\* is, like every Date.now(), more than the window away from 0
TickMs == SAVE_THROTTLE \div 2
Epoch == 10 * SAVE_THROTTLE

Pixel(x, y) == Obj([x |-> Num(x), y |-> Num(y)])

\* window.innerWidth - rect.width and window.innerHeight - rect.height
MaxLeft == 300
MaxTop == 200

\* Math.max(0, Math.min(v, hi))
Clamp(v, hi) == IF v > hi THEN (IF hi < 0 THEN 0 ELSE hi) ELSE IF v < 0 THEN 0 ELSE v

\* onMove's frame: the panel position for the pointer at e
NewPos(e, offset) ==
  Pixel(Clamp(e.x - offset.x, MaxLeft), Clamp(e.y - offset.y, MaxTop))

\* The store calls of onMove's frame at time `now`
MoveCalls(newPos, now, lastSaveTime) ==
  <<MkCall("setPosition", newPos, 0, Bool(FALSE))>>
    \o (IF now - lastSaveTime > SAVE_THROTTLE
        THEN <<MkCall("setPosition", newPos, 0, Undef)>> ELSE <<>>)

\* A slip: the release updates the position the way a move does
UpCallsUnsaved(latestPos) ==
  IF Truthy(latestPos) THEN <<MkCall("setPosition", latestPos, 0, Bool(FALSE))>> ELSE <<>>

\* The store calls of onUp
UpCalls(latestPos) ==
  IF Truthy(latestPos) THEN <<MkCall("setPosition", latestPos, 0, Undef)>> ELSE <<>>

\* No frame requested (rafId null)
NoFrame == [x |-> -1, y |-> -1]

\* The drag effect returned early: no listener on the document
EffectOff ==
  [on |-> FALSE, lastSaveTime |-> 0, latestPos |-> Undef, rafId |-> NoFrame,
   offset |-> [x |-> 0, y |-> 0]]

\* The drag effect ran with isDragging: its closure
EffectOn(pos, offset) ==
  [on |-> TRUE, lastSaveTime |-> 0, latestPos |-> pos, rafId |-> NoFrame,
   offset |-> offset]

\* Where the pointer goes down on the panel, relative to its corner
GrabPoints == {[x |-> 10, y |-> 10]}

\* Where the pointer moves to
MousePoints == {[x |-> 60, y |-> 70], [x |-> 500, y |-> 5]}

NoDragLog == [writes |-> <<>>, applied |-> Undef, moves |-> 0]

\* Mutator calls made one after the other
RECURSIVE RunCalls(_, _, _, _)
RunCalls(m, cs, keys, w) ==
  IF cs = <<>> \/ m.threw THEN m
  ELSE RunCalls(RunCall(m, Head(cs), keys, w), Tail(cs), keys, w)

\* The overlay before it is mounted
\* No hook store, no undo snapshot, no request at the server, no search
NoHook == [made |-> FALSE, key |-> "", state |-> EmptyFcn, added |-> Null]
NoUndo ==
  [snapshot |-> Null, timer |-> -1, canUndo |-> FALSE, menuOpen |-> FALSE,
   before |-> Null, at |-> -1, undone |-> FALSE, keys |-> 0]
Requests == {1, 2}
NoServer ==
  [rows |-> {}, pc |-> [r \in Requests |-> [at |-> "none", arg |-> Arr(<<>>)]]]
NoRow == [kind |-> "none", task |-> -1, used |-> -1]
NoSearch == [query |-> <<>>, isExpanded |-> FALSE, acted |-> NoRow]

SideIdle ==
  /\ hookStore = NoHook
  /\ undo = NoUndo
  /\ server = NoServer
  /\ search = NoSearch

UiIdle ==
  /\ clock = Epoch
  /\ isDragging = FALSE
  /\ dragOffset = [x |-> 0, y |-> 0]
  /\ dirty = FALSE
  /\ view = [pos |-> DEFAULT_POSITION, isDragging |-> FALSE,
             dragOffset |-> [x |-> 0, y |-> 0]]
  /\ effect = EffectOff
  /\ dragLog = NoDragLog
  /\ remote = NoRemote
  /\ PageIdle
  /\ AnchorIdle
  /\ SideIdle

-----------------------------------------------------------------------------
(* Operations *)

AllWritable == [k \in 1..MaxNested |-> TRUE]

InitEmpty ==
  /\ ls = [k \in AllStorageKeys |-> NoItem]
  /\ alive = FALSE
  /\ overrides = EmptyFcn
  /\ state = EmptyFcn
  /\ hydrateThrew = FALSE
  /\ listeners = <<>>
  /\ react = [l \in Listeners |-> Idle]
  /\ nCalls = 0
  /\ prevState = EmptyFcn
  /\ prevLs = [k \in AllStorageKeys |-> NoItem]
  /\ subsAtCall = {}
  /\ lastCall = NoCall
  /\ notes = <<>>
  /\ calls = <<>>
  /\ muts = <<>>
  /\ threw = FALSE
  /\ loaded = EmptyFcn
  /\ last = "init"
  /\ clean = FALSE
  /\ roundTrip = FALSE
  /\ want = EmptyFcn
  /\ lastW = AllWritable
  /\ readOk = TRUE
  /\ UiIdle

\* Another script, an older version or the user leaves an item in localStorage
PutItem ==
  /\ last \in {"init", "put"}
  /\ Cardinality({k \in AllStorageKeys : ls[k] # NoItem}) < MaxRecords
  /\ \E k \in KeyNames :
       /\ ls[Keys[k]] = NoItem
       /\ \E text \in TextsFor(k) : ls' = [ls EXCEPT ![Keys[k]] = text]
  /\ last' = "put"
  /\ UNCHANGED <<alive, overrides, state, hydrateThrew, listeners, react, nCalls,
                 prevState, prevLs, subsAtCall, lastCall, notes, calls, muts,
                 threw, loaded, clean, roundTrip, want, lastW, readOk, uiVars>>

\* createVigiloStore(instanceKey, {overrides: o}) with the local adapter
CreateStore(o, readable) ==
  LET saved == loadState(ls, Keys, readable)
      h == hydrateState(saved, o)
  IN /\ loaded' = saved
     /\ overrides' = o
     /\ alive' = h.ok
     /\ hydrateThrew' = ~h.ok
     /\ state' = h.state
     /\ want' = h.state
     /\ listeners' = <<>>
     /\ react' = [l \in Listeners |-> Idle]
     /\ prevState' = state
     /\ prevLs' = ls
     /\ roundTrip' = (alive /\ clean /\ o = EmptyFcn /\ readable)
     /\ clean' = (h.ok /\ o = EmptyFcn /\ readable)
     /\ subsAtCall' = {}
     /\ lastCall' = NoCall
     /\ notes' = <<>>
     /\ calls' = <<>>
     /\ muts' = <<>>
     /\ threw' = FALSE
     /\ lastW' = AllWritable
     /\ readOk' = readable
     /\ last' = "construct"
     /\ UNCHANGED <<ls, nCalls, uiVars>>

\* A store is constructed over whatever localStorage holds
Construct ==
  /\ ~alive
  /\ last \in {"init", "put"}
  /\ \E o \in OverrideChoices, readable \in BOOLEAN : CreateStore(o, readable)

\* The overrides a mounting owner passes: none, or its line color
MountOverrides == {EmptyFcn, "lineColor" :> Str("#fff")}

\* The owner mounts: the first store of the page
Mount ==
  /\ ~alive
  /\ last = "init"
  /\ \E o \in MountOverrides : CreateStore(o, TRUE)

\* The owner unmounts and mounts again: a new store for the same instanceKey
Reconstruct ==
  /\ alive
  /\ last = "call"
  /\ \E o \in MountOverrides : CreateStore(o, TRUE)

\* store.subscribe(listener); `r` is what the listener's callback will do
SubscribeAs(l, r) ==
  /\ alive
  /\ l \notin SetMembers(listeners)
  /\ listeners' = SetAdd(listeners, l)
  /\ react' = [react EXCEPT ![l] = r]
  /\ last' = "subscribe"
  /\ UNCHANGED <<ls, alive, overrides, state, hydrateThrew, nCalls, prevState,
                 prevLs, subsAtCall, lastCall, notes, calls, muts, threw, loaded,
                 clean, roundTrip, want, lastW, readOk, uiVars>>

\* The remove function subscribe returned is called (from outside a notification)
Unsubscribe ==
  /\ alive
  /\ \E l \in SetMembers(listeners) :
       /\ listeners' = SetEntries(SetDelete(listeners, l))
       /\ react' = [react EXCEPT ![l] = Idle]
  /\ last' = "unsubscribe"
  /\ UNCHANGED <<ls, alive, overrides, state, hydrateThrew, nCalls, prevState,
                 prevLs, subsAtCall, lastCall, notes, calls, muts, threw, loaded,
                 clean, roundTrip, want, lastW, readOk, uiVars>>

\* A mutator of the store is called from outside; it returns (or throws)
\* after its listeners and its storage method have run
ExternalCall(c, w) ==
  LET m0 == [st |-> state, store |-> ls, lst |-> listeners, react |-> react,
             n |-> 0, notes |-> <<>>, calls |-> <<>>, muts |-> <<>>,
             threw |-> FALSE]
      m == RunCall(m0, c, Keys, w)
  IN /\ alive
     /\ nCalls < MaxCalls
     /\ nCalls' = nCalls + 1
     /\ state' = m.st
     /\ ls' = m.store
     /\ listeners' = SetEntries(m.lst)
     /\ react' = m.react
     /\ notes' = m.notes
     /\ calls' = m.calls
     /\ muts' = m.muts
     /\ threw' = m.threw
     /\ prevState' = state
     /\ prevLs' = ls
     /\ subsAtCall' = SetMembers(listeners)
     /\ lastCall' = c
     /\ lastW' = w
     /\ want' = [want EXCEPT ![SliceOf(c.op)] = ArgOf(want, c)]
     /\ clean' = (clean /\ ~SkipsSave(c) /\ w[1] /\ Len(m.muts) = 1)
     /\ last' = "call"
     /\ UNCHANGED <<alive, overrides, hydrateThrew, loaded, roundTrip, readOk, uiVars>>

\* Write outcomes that differ only where a write can happen
WriteOutcomes == {w \in [1..MaxNested -> BOOLEAN] : \A k \in 2..MaxNested : w[k]}

\* The owner subscribes its listeners right after constructing the store;
\* a listener that only reads the state is like any other
Subscribe ==
  /\ last \in {"construct", "subscribe"}
  /\ \E l \in Listeners :
       /\ \A l2 \in Listeners : l2 < l => l2 \in SetMembers(listeners)
       /\ SubscribeAs(l, Idle)

Call == \E c \in AllCalls, w \in WriteOutcomes : ExternalCall(c, w)

\* The store with the local adapter: construction, subscriptions of listeners
\* that only read the state, mutator calls whose writes may fail, remount
Next == Mount \/ Subscribe \/ Call \/ Reconstruct

Spec == InitEmpty /\ [][Next]_vars

\* Hydration: any contents of localStorage, then one construction
NextHydrate == PutItem \/ Construct

SpecHydrate == InitEmpty /\ [][NextHydrate]_vars

\* Notification: a store over empty storage, listeners whose callbacks call
\* mutators or change the subscriptions, every write succeeding
InitStore ==
  /\ ls = [k \in AllStorageKeys |-> NoItem]
  /\ alive = TRUE
  /\ overrides = EmptyFcn
  /\ loaded = loadState(ls, Keys, TRUE)
  /\ state = hydrateState(loaded, EmptyFcn).state
  /\ want = state
  /\ hydrateThrew = FALSE
  /\ listeners = <<>>
  /\ react = [l \in Listeners |-> Idle]
  /\ nCalls = 0
  /\ prevState = EmptyFcn
  /\ prevLs = ls
  /\ subsAtCall = {}
  /\ lastCall = NoCall
  /\ notes = <<>>
  /\ calls = <<>>
  /\ muts = <<>>
  /\ threw = FALSE
  /\ last = "construct"
  /\ clean = TRUE
  /\ roundTrip = FALSE
  /\ lastW = AllWritable
  /\ readOk = TRUE
  /\ UiIdle

\* The calls a listener's callback makes
NestedCalls ==
  {MkCall("setHidden", Bool(FALSE), 0, Undef), MkCall("setLineColor", Str(""), 0, Undef)}

\* The calls made from outside
OuterCalls ==
  {MkCall("setHidden", Bool(TRUE), 0, Undef), MkCall("setDisplayMode", Str("minimal"), 0, Undef)}

Reactions ==
  {Idle} \cup {DoCall(c) : c \in NestedCalls}
    \cup {DoUnsub(l) : l \in Listeners} \cup {DoSub(l) : l \in Listeners}

SubscribeReacting == \E l \in Listeners, r \in Reactions : SubscribeAs(l, r)

CallNotify == \E c \in OuterCalls : ExternalCall(c, AllWritable)

NextNotify == SubscribeReacting \/ Unsubscribe \/ CallNotify

SpecNotify == InitStore /\ [][NextNotify]_vars

-----------------------------------------------------------------------------
(* The overlay's store across unmount and mount *)

\* The display preferences chosen in the overlay's settings
PreferenceCalls ==
  {MkCall("setLineColor", Str("#0f0"), 0, Undef),
   MkCall("setLineColor", Str(""), 0, Undef),
   MkCall("setLineOpacity", Num(30), 0, Undef),
   MkCall("setComponentOpacity", Num(10), 0, Undef),
   MkCall("setShowLines", Bool(FALSE), 0, Undef),
   MkCall("setShowBadges", Bool(FALSE), 0, Undef),
   MkCall("setDisplayMode", Str("compact"), 0, Undef)}

\* The initialization effect of VigiloCore: the store of instanceKey is
\* created with the local adapter and overrides { lineColor: primaryLineColor }
MountCore ==
  /\ ~alive
  /\ last \in {"init", "unmount"}
  /\ CreateStore(ThemeOverrides, TRUE)

\* A preference is chosen
Preference == \E c \in PreferenceCalls : ExternalCall(c, AllWritable)

\* The effect's cleanup: unsubscribe(), storeRef.current = null
UnmountCore ==
  /\ alive
  /\ alive' = FALSE
  /\ listeners' = <<>>
  /\ last' = "unmount"
  /\ UNCHANGED <<ls, overrides, state, hydrateThrew, react, nCalls, prevState, prevLs,
                 subsAtCall, lastCall, notes, calls, muts, threw, loaded, clean,
                 roundTrip, want, lastW, readOk, uiVars>>

NextRemount == MountCore \/ Preference \/ UnmountCore

SpecRemount == InitEmpty /\ [][NextRemount]_vars

-----------------------------------------------------------------------------
(* Stores of several instance keys over one localStorage *)

\* The instance keys of the other overlays of the origin
OtherInstanceKeys == {"app-2", "pos-app"}
OtherStorageKeys ==
  UNION {{createStorageKeys(i)[k] : k \in KeyNames} : i \in OtherInstanceKeys}

\* The records another instance has saved
OtherRecordNames == {"pos", "mode"}

\* One mutator call for every slice, and setStatus
NamespaceCalls ==
  {MkCall("setPosition", Pos1, 0, Undef), MkCall("setStatus", Str("working"), 0, Undef)}
    \cup {MkCall(SetterOf(s), CHOOSE val \in CallVals(s) : TRUE, 0, Undef) :
            s \in SliceNames \ {"position"}}

\* localStorage holds no item under the keys of any instance
InitNamespaces ==
  /\ ls = [k \in AllStorageKeys \cup OtherStorageKeys |-> NoItem]
  /\ prevLs = [k \in AllStorageKeys \cup OtherStorageKeys |-> NoItem]
  /\ alive = FALSE
  /\ overrides = EmptyFcn
  /\ state = EmptyFcn
  /\ hydrateThrew = FALSE
  /\ listeners = <<>>
  /\ react = [l \in Listeners |-> Idle]
  /\ nCalls = 0
  /\ prevState = EmptyFcn
  /\ subsAtCall = {}
  /\ lastCall = NoCall
  /\ notes = <<>>
  /\ calls = <<>>
  /\ muts = <<>>
  /\ threw = FALSE
  /\ loaded = EmptyFcn
  /\ last = "init"
  /\ clean = FALSE
  /\ roundTrip = FALSE
  /\ want = EmptyFcn
  /\ lastW = AllWritable
  /\ readOk = TRUE
  /\ UiIdle

\* The store of another instance key has saved a slice
PutOther ==
  /\ last \in {"init", "put"}
  /\ Cardinality({k \in OtherStorageKeys : ls[k] # NoItem}) < MaxRecords
  /\ \E i \in OtherInstanceKeys, k \in OtherRecordNames :
       /\ ls[createStorageKeys(i)[k]] = NoItem
       /\ ls' = [ls EXCEPT ![createStorageKeys(i)[k]] =
                   ValidText(SliceOfKey(k), CHOOSE val \in DomainVals(SliceOfKey(k)) : TRUE)]
  /\ last' = "put"
  /\ UNCHANGED <<alive, overrides, state, hydrateThrew, listeners, react, nCalls,
                 prevState, prevLs, subsAtCall, lastCall, notes, calls, muts,
                 threw, loaded, clean, roundTrip, want, lastW, readOk, uiVars>>

\* createVigiloStore(InstanceKey) beside the records of the other instances
ConstructBeside ==
  /\ ~alive
  /\ last \in {"init", "put"}
  /\ CreateStore(EmptyFcn, TRUE)

CallBeside == \E c \in NamespaceCalls : ExternalCall(c, AllWritable)

NextNamespaces == PutOther \/ ConstructBeside \/ CallBeside

SpecNamespaces == InitNamespaces /\ [][NextNamespaces]_vars

-----------------------------------------------------------------------------
(* The overlay: dragging the panel *)

\* The overlay is mounted over empty storage: its store is constructed and
\* its listener (setStoreState(store.getState())) subscribed
InitOverlay ==
  /\ ls = [k \in AllStorageKeys |-> NoItem]
  /\ alive = TRUE
  /\ overrides = "lineColor" :> Str("#fff")
  /\ loaded = loadState(ls, Keys, TRUE)
  /\ state = hydrateState(loaded, overrides).state
  /\ want = state
  /\ hydrateThrew = FALSE
  /\ listeners = <<1>>
  /\ react = [l \in Listeners |-> Idle]
  /\ nCalls = 0
  /\ prevState = EmptyFcn
  /\ prevLs = ls
  /\ subsAtCall = {}
  /\ lastCall = NoCall
  /\ notes = <<>>
  /\ calls = <<>>
  /\ muts = <<>>
  /\ threw = FALSE
  /\ last = "construct"
  /\ clean = FALSE
  /\ roundTrip = FALSE
  /\ lastW = AllWritable
  /\ readOk = TRUE
  /\ clock = Epoch
  /\ isDragging = FALSE
  /\ dragOffset = [x |-> 0, y |-> 0]
  /\ dirty = FALSE
  /\ view = [pos |-> state["position"], isDragging |-> FALSE,
             dragOffset |-> [x |-> 0, y |-> 0]]
  /\ effect = EffectOff
  /\ dragLog = NoDragLog
  /\ remote = NoRemote
  /\ PageIdle
  /\ AnchorIdle
  /\ SideIdle

\* The overlay calls mutators of its store one after the other; every
\* setItem of the step succeeds or fails as `ok` says
StoreRuns(cs, ok) ==
  LET w == [k \in 1..MaxNested |-> ok]
      m0 == [st |-> state, store |-> ls, lst |-> listeners, react |-> react,
             n |-> 0, notes |-> <<>>, calls |-> <<>>, muts |-> <<>>,
             threw |-> FALSE]
      m == RunCalls(m0, cs, Keys, w)
  IN /\ state' = m.st
     /\ ls' = m.store
     /\ listeners' = SetEntries(m.lst)
     /\ react' = m.react
     /\ notes' = m.notes
     /\ calls' = m.calls
     /\ muts' = m.muts
     /\ threw' = m.threw
     /\ prevState' = state
     /\ prevLs' = ls
     /\ subsAtCall' = SetMembers(listeners)
     /\ lastCall' = IF cs = <<>> THEN NoCall ELSE cs[Len(cs)]
     /\ lastW' = w
     /\ want' = m.st
     /\ clean' = FALSE
     /\ dirty' = (dirty \/ m.muts # <<>>)
     /\ UNCHANGED <<alive, overrides, hydrateThrew, loaded, roundTrip, readOk, nCalls>>

\* Time passes
Tick ==
  /\ clock < Epoch + MaxTicks * TickMs
  /\ clock' = clock + TickMs
  /\ last' = "tick"
  /\ UNCHANGED <<ls, alive, overrides, state, hydrateThrew, listeners, react, nCalls,
                 prevState, prevLs, subsAtCall, lastCall, notes, calls, muts, threw,
                 loaded, clean, roundTrip, want, lastW, readOk,
                 isDragging, dragOffset, dirty, view, effect, dragLog, remote, pageVars, sideVars, anchorVars>>

\* startDrag: the pointer goes down on the panel's handle
StartDrag ==
  /\ alive /\ ~isDragging
  /\ \E g \in GrabPoints : dragOffset' = g
  /\ isDragging' = TRUE
  /\ dragLog' = [NoDragLog EXCEPT !.moves = dragLog.moves]
  /\ last' = "down"
  /\ UNCHANGED <<ls, alive, overrides, state, hydrateThrew, listeners, react, nCalls,
                 prevState, prevLs, subsAtCall, lastCall, notes, calls, muts, threw,
                 loaded, clean, roundTrip, want, lastW, readOk,
                 clock, dirty, view, effect, remote, pageVars, sideVars, anchorVars>>

\* React commits a render: the effect whose dependencies [isDragging,
\* dragOffset, pos] changed is cleaned up (its pending frame cancelled) and
\* run again
Rerender ==
  /\ alive
  /\ dirty \/ isDragging # view.isDragging \/ dragOffset # view.dragOffset
  /\ view' = [pos |-> state["position"], isDragging |-> isDragging,
              dragOffset |-> dragOffset]
  /\ effect' = IF isDragging THEN EffectOn(state["position"], dragOffset)
               ELSE EffectOff
  /\ dirty' = FALSE
  /\ last' = "render"
  /\ UNCHANGED <<ls, alive, overrides, state, hydrateThrew, listeners, react, nCalls,
                 prevState, prevLs, subsAtCall, lastCall, notes, calls, muts, threw,
                 loaded, clean, roundTrip, want, lastW, readOk,
                 clock, isDragging, dragOffset, dragLog, remote, pageVars, sideVars, anchorVars>>

\* onMove: a mousemove event; skipped while a frame is pending
MouseMove ==
  /\ effect.on /\ effect.rafId = NoFrame
  /\ dragLog.moves < MaxMoves
  /\ \E e \in MousePoints : effect' = [effect EXCEPT !.rafId = e]
  /\ last' = "move"
  /\ UNCHANGED <<ls, alive, overrides, state, hydrateThrew, listeners, react, nCalls,
                 prevState, prevLs, subsAtCall, lastCall, notes, calls, muts, threw,
                 loaded, clean, roundTrip, want, lastW, readOk,
                 clock, isDragging, dragOffset, dirty, view, dragLog, remote, pageVars, sideVars, anchorVars>>

\* The animation frame onMove requested
Frame ==
  /\ effect.on /\ effect.rafId # NoFrame
  /\ LET newPos == NewPos(effect.rafId, effect.offset)
         cs == MoveCalls(newPos, clock, effect.lastSaveTime)
         saves == Len(cs) = 2
     IN /\ \E ok \in BOOLEAN : StoreRuns(cs, ok)
        /\ effect' = [effect EXCEPT !.latestPos = newPos, !.rafId = NoFrame,
                                    !.lastSaveTime = IF saves THEN clock ELSE @]
        /\ dragLog' = [dragLog EXCEPT
                         !.applied = IF isDragging THEN newPos ELSE @,
                         !.moves = @ + 1,
                         !.writes = IF saves /\ isDragging THEN Append(@, clock) ELSE @]
  /\ last' = "frame"
  /\ UNCHANGED <<clock, isDragging, dragOffset, view, remote, pageVars, sideVars, anchorVars>>

\* onUp: a mouseup event on the document; it releases the drag, unless the
\* drag was released already and the effect's listeners are still in place
MouseUp ==
  /\ effect.on
  /\ \E ok \in BOOLEAN : StoreRuns(UpCalls(effect.latestPos), ok)
  /\ isDragging' = FALSE
  /\ effect' = [effect EXCEPT !.rafId = NoFrame]
  /\ last' = IF isDragging THEN "up" ELSE "click"
  /\ UNCHANGED <<clock, dragOffset, view, dragLog, remote, pageVars, sideVars, anchorVars>>

NextDrag == Tick \/ StartDrag \/ Rerender \/ MouseMove \/ Frame \/ MouseUp

SpecDrag == InitOverlay /\ [][NextDrag]_vars

-----------------------------------------------------------------------------
(* Hydration through the two adapters *)

\* The storage key name of a slice's record
KeyOfSlice(s) == CHOOSE k \in KeyNames \ {"col"} : SliceOfKey(k) = s

\* An earlier session persisted a value of a slice: the local adapter holds
\* it in localStorage, the remote backend in its database
PersistBoth ==
  /\ last \in {"init", "persist"}
  /\ Cardinality(DOMAIN remote.backend) < MaxRecords
  /\ \E s \in SliceNames \ DOMAIN remote.backend :
       \E val \in DomainVals(s) :
         /\ ls' = [ls EXCEPT ![Keys[KeyOfSlice(s)]] = ValidText(s, val)]
         /\ remote' = [remote EXCEPT !.backend = (s :> val) @@ @]
  /\ last' = "persist"
  /\ UNCHANGED <<alive, overrides, state, hydrateThrew, listeners, react, nCalls,
                 prevState, prevLs, subsAtCall, lastCall, notes, calls, muts,
                 threw, loaded, clean, roundTrip, want, lastW, readOk,
                 clock, isDragging, dragOffset, dirty, view, effect, dragLog, pageVars, sideVars, anchorVars>>

\* createVigiloStore(instanceKey, {overrides}) with the local adapter
ConstructLocal ==
  /\ ~alive
  /\ \E o \in MountOverrides :
       /\ remote.made => o = remote.overrides
       /\ CreateStore(o, TRUE)

\* createVigiloStore(instanceKey, {storage: createApiVigiloStorage(..), overrides})
ConstructRemote ==
  /\ ~remote.made
  /\ \E o \in MountOverrides :
       /\ alive => o = overrides
       /\ remote' = [remote EXCEPT
                       !.made = TRUE, !.overrides = o,
                       !.state = hydrateState(apiLoadState(Respond(remote.backend)), o).state]
  /\ last' = "remote"
  /\ UNCHANGED <<ls, alive, overrides, state, hydrateThrew, listeners, react, nCalls,
                 prevState, prevLs, subsAtCall, lastCall, notes, calls, muts,
                 threw, loaded, clean, roundTrip, want, lastW, readOk,
                 clock, isDragging, dragOffset, dirty, view, effect, dragLog, pageVars, sideVars, anchorVars>>

NextAdapters == PersistBoth \/ ConstructLocal \/ ConstructRemote

SpecAdapters == InitEmpty /\ [][NextAdapters]_vars

-----------------------------------------------------------------------------
(* A page of Vigilo components *)

StoreVars ==
  <<ls, alive, overrides, state, hydrateThrew, listeners, react, nCalls, prevState,
    prevLs, subsAtCall, lastCall, notes, calls, muts, threw, loaded, clean,
    roundTrip, want, lastW, readOk>>

OverlayVars == <<clock, isDragging, dragOffset, dirty, view, effect, dragLog, remote>>

\* The instance keys of the mounted components other than i
KeysInUse(pg, i) == {instanceKeyOf(pg[j].props) : j \in {k \in Overlays \ {i} : pg[k].mounted}}

\* A commit of the page: the registry, the flag and the components after it
Committed(pm, what) ==
  /\ paletteMounted' = pm.paletteMounted
  /\ registry' = pm.registry
  /\ page' = pm.page
  /\ regLog' = pm.log
  /\ last' = what
  /\ UNCHANGED <<StoreVars, OverlayVars, anchorVars, sideVars>>

PageNow == [page |-> page, registry |-> registry, paletteMounted |-> paletteMounted,
            log |-> <<>>]

\* Components are added to the page in one commit
MountVigilo ==
  \E S \in SUBSET {i \in Overlays : ~page[i].mounted} :
    \E pr \in [S -> PropsChoices], en \in [S -> BOOLEAN], sv \in [S -> SavedChoices] :
      /\ S # {}
      /\ \A i \in S : instanceKeyOf(pr[i]) \notin KeysInUse(page, i)
      /\ \A i, j \in S : i # j => instanceKeyOf(pr[i]) # instanceKeyOf(pr[j])
      /\ Committed(MountAll(PageNow, S, pr, en, sv, paletteMounted), "mount")

\* A component is removed from the page
UnmountVigilo ==
  \E i \in Overlays :
    /\ page[i].mounted
    /\ LET pm == IF Core(page[i]) THEN CoreUnmount(PageNow, i) ELSE PageNow
       IN Committed([pm EXCEPT !.page[i] = Unmounted], "unmount")

\* The `enabled` prop of a component changes: its VigiloCore mounts or unmounts
SetEnabled ==
  \E i \in Overlays, sv \in SavedChoices :
    /\ page[i].mounted
    /\ LET pm == [PageNow EXCEPT !.page[i].enabled = ~page[i].enabled]
       IN Committed(IF page[i].enabled THEN CoreUnmount(pm, i) ELSE CoreMount(pm, i, sv),
                    "enabled")

\* The category or instanceId prop of a component changes. With a new
\* instance key the cleanups run (the old key is removed, the old store left),
\* a store for the new key is constructed, and the publishing effect runs with
\* the state of the render, which is still the one of the old store
ChangeProps ==
  \E i \in Overlays, pr \in PropsChoices, sv \in SavedChoices :
    /\ page[i].mounted /\ pr # page[i].props
    /\ instanceKeyOf(pr) \notin KeysInUse(page, i)
    /\ LET old == instanceKeyOf(page[i].props)
           rekeyed == instanceKeyOf(pr) # old
           pm1 == IF Core(page[i]) /\ rekeyed THEN Cleanup(PageNow, old) ELSE PageNow
           pm2 == [pm1 EXCEPT !.page[i].props = pr]
           pm3 == IF Core(page[i]) /\ rekeyed
                  THEN [pm2 EXCEPT
                          !.page[i].st = hydrateState(sv, ThemeOverrides).state,
                          !.page[i].stale = TRUE, !.page[i].fresh = TRUE]
                  ELSE pm2
       IN Committed(IF Core(page[i]) THEN Publish(pm3, i) ELSE pm3, "props")

\* A mutator of a component's store is called: the state changes and the
\* listener schedules a render
StoreCall ==
  \E i \in Overlays, c \in PageCalls :
    /\ Core(page[i])
    /\ Committed([PageNow EXCEPT
                    !.page[i].st = Updated(@, c), !.page[i].stale = TRUE,
                    !.page[i].fresh = @ \/ SliceOf(c.op) \in {"connections", "statuses"}],
                 "change")

\* React commits the scheduled render of a component: the publishing effect
\* runs when one of its dependencies isHidden, connections, statuses changed
Commit ==
  \E i \in Overlays :
    /\ Core(page[i]) /\ page[i].stale
    /\ LET pm == [PageNow EXCEPT !.page[i].seen = page[i].st, !.page[i].stale = FALSE,
                                 !.page[i].fresh = FALSE]
           changed == page[i].fresh \/ page[i].seen["isHidden"] # page[i].st["isHidden"]
       IN Committed(IF changed THEN Publish(pm, i) ELSE pm, "commit")

NextPage == MountVigilo \/ UnmountVigilo \/ SetEnabled \/ ChangeProps \/ StoreCall \/ Commit

SpecPage == InitEmpty /\ [][NextPage]_vars

-----------------------------------------------------------------------------
(* The overlay: rendering connectors, connecting, focusing *)

DragVars == <<clock, isDragging, dragOffset, view, effect, dragLog>>

\* An element of the routed part of the page appears in the document or
\* disappears from it (a route change)
DomChange ==
  /\ \E e \in RoutedElements : dom' = IF e \in dom THEN dom \ {e} ELSE dom \cup {e}
  /\ last' = "dom"
  /\ UNCHANGED <<StoreVars, DragVars, dirty, remote, pageVars, sideVars, shown, paint,
                 selectingIndex, gest>>

\* The positions of the connections whose selector is valid and matches no
\* element of the document
Missed(connections, doc) ==
  {n \in DOMAIN connections.v :
     LET c == connections.v[n].v
     IN /\ ~Truthy(Get(c, "targetPosition"))
        /\ Truthy(Get(c, "targetSelector"))
        /\ Get(c, "targetSelector").v \in Elements \ doc}

\* React commits a render of the overlay with the store's state
Paint ==
  /\ alive
  /\ dirty \/ shown = EmptyFcn \/ last \in {"dom", "select"}
  /\ shown' = state
  /\ LET r == RenderLines(state, dom, selectingIndex)
         same == shown # EmptyFcn /\ shown["connections"] = state["connections"]
     IN paint' = [threw |-> r.threw, drawn |-> r.drawn,
                  missed |-> Missed(state["connections"], dom),
                  redrawn |-> IF same THEN r.drawn \cap paint.missed ELSE {}]
  /\ dirty' = FALSE
  /\ prevState' = state
  /\ prevLs' = ls
  /\ last' = "paint"
  /\ UNCHANGED <<ls, alive, overrides, state, hydrateThrew, listeners, react, nCalls,
                 subsAtCall, lastCall, notes, calls, muts, threw, loaded, clean,
                 roundTrip, want, lastW, readOk,
                 DragVars, remote, pageVars, sideVars, dom, selectingIndex, gest>>

\* importConfig, or another caller of the store, sets the connections
ImportConnections ==
  /\ alive /\ gest.ops < MaxOps
  /\ \E cs \in ImportedConnections :
       StoreRuns(<<MkCall("setConnections", cs, 0, Undef)>>, TRUE)
  /\ gest' = [gest EXCEPT !.ops = @ + 1]
  /\ last' = "import"
  /\ UNCHANGED <<DragVars, remote, pageVars, sideVars, dom, shown, paint, selectingIndex>>

\* handleHide: the overlay is hidden
Hide ==
  /\ alive /\ gest.ops < MaxOps
  /\ StoreRuns(<<MkCall("setHidden", Bool(TRUE), 0, Undef)>>, TRUE)
  /\ gest' = [gest EXCEPT !.ops = @ + 1]
  /\ last' = "hide"
  /\ UNCHANGED <<DragVars, remote, pageVars, sideVars, dom, shown, paint, selectingIndex>>

\* The user starts connecting a task row
StartSelect ==
  /\ alive /\ shown # EmptyFcn /\ selectingIndex = -1
  /\ \E i \in RowsShown(shown["displayMode"]) : selectingIndex' = i
  /\ last' = "select"
  /\ UNCHANGED <<StoreVars, DragVars, dirty, remote, pageVars, sideVars, dom, shown, paint, gest>>

\* onClick of the selection effect: the click on an element of the page, or
\* on the body, connects the task being selected. The effect depends on the
\* connections, so the listener that runs is the one of the committed render
ClickTarget ==
  /\ alive /\ selectingIndex # -1 /\ gest.ops < MaxOps
  /\ ~dirty /\ shown # EmptyFcn
  /\ \E target \in dom \cup {"body"} :
       LET newConn == NewConn(selectingIndex, target)
       IN /\ StoreRuns(<<MkCall("setConnections",
                                ClickNext(shown["connections"], selectingIndex, newConn),
                                0, Undef)>>, TRUE)
          /\ gest' = [index |-> selectingIndex, conn |-> newConn, ops |-> gest.ops + 1]
  /\ selectingIndex' = -1
  /\ last' = "connect"
  /\ UNCHANGED <<DragVars, remote, pageVars, sideVars, dom, shown, paint>>

\* useVigiloInstance().addConnection(i, target)
AddConnection ==
  /\ alive /\ gest.ops < MaxOps
  /\ \E a \in HookArgs :
       LET i == a.index
           newConn == HookConn(i, a.target)
       IN /\ StoreRuns(<<MkCall("setConnections",
                                HookNext(state["connections"], i, newConn), 0, Undef)>>,
                       TRUE)
          /\ gest' = [index |-> i, conn |-> newConn, ops |-> gest.ops + 1]
  /\ last' = "addConnection"
  /\ UNCHANGED <<DragVars, remote, pageVars, sideVars, dom, shown, paint, selectingIndex>>

\* The calls revealOverlay makes on the store
RevealCalls == <<MkCall("setHidden", Bool(FALSE), 0, Undef)>>

\* A task's focusTask, or the instance's focus action, is invoked from the
\* registry snapshot: revealOverlay(), then setOpenIssueIndex
Focus ==
  /\ alive /\ gest.ops < MaxOps
  /\ StoreRuns(RevealCalls, TRUE)
  /\ gest' = [gest EXCEPT !.ops = @ + 1]
  /\ last' = "focus"
  /\ UNCHANGED <<DragVars, remote, pageVars, sideVars, dom, shown, paint, selectingIndex>>

NextOverlay ==
  DomChange \/ Paint \/ ImportConnections \/ Hide \/ StartSelect \/ ClickTarget
    \/ AddConnection \/ Focus

SpecOverlay == InitOverlay /\ [][NextOverlay]_vars

-----------------------------------------------------------------------------
(* The overlay's gestures on connections *)

\* Where the pointer is during the drag of a connection point
PointerChoices == {Pos1, Pos2}

\* The connection point of task j is pressed and dragged: a mousemove of the
\* editing effect, which reads the store's connections
EditEndpoint ==
  /\ alive /\ gest.ops < MaxOps
  /\ \E j \in {0, 1}, p \in PointerChoices :
       /\ HasConnection(state["connections"], j)
       /\ StoreRuns(<<MkCall("setConnections", EditNext(state["connections"], j, p),
                             0, Undef)>>, TRUE)
       /\ gest' = [index |-> j, conn |-> p, ops |-> gest.ops + 1]
  /\ last' = "edit"
  /\ UNCHANGED <<DragVars, remote, pageVars, sideVars, dom, shown, paint, selectingIndex>>

\* removeConnection(j), from a double click on the connection point: the
\* callback of the committed render filters its connections
RemoveGesture ==
  /\ alive /\ gest.ops < MaxOps
  /\ ~dirty /\ shown # EmptyFcn
  /\ \E j \in {0, 1} :
       /\ HasConnection(shown["connections"], j)
       /\ StoreRuns(<<MkCall("setConnections",
                             Arr(SelectSeq(shown["connections"].v,
                                           LAMBDA c : Get(c.v, "todoIndex") # Num(j))),
                             0, Undef)>>, TRUE)
       /\ gest' = [index |-> j, conn |-> Undef, ops |-> gest.ops + 1]
  /\ last' = "remove"
  /\ UNCHANGED <<DragVars, remote, pageVars, sideVars, dom, shown, paint, selectingIndex>>

\* actions.resetConnections: setConnections([])
ResetGesture ==
  /\ alive /\ gest.ops < MaxOps
  /\ state["connections"] # Arr(<<>>)
  /\ StoreRuns(<<MkCall("setConnections", Arr(<<>>), 0, Undef)>>, TRUE)
  /\ gest' = [index |-> -1, conn |-> Undef, ops |-> gest.ops + 1]
  /\ last' = "reset"
  /\ UNCHANGED <<DragVars, remote, pageVars, sideVars, dom, shown, paint, selectingIndex>>

NextGestures ==
  Paint \/ StartSelect \/ ClickTarget \/ EditEndpoint \/ RemoveGesture \/ ResetGesture

SpecGestures == InitOverlay /\ [][NextGestures]_vars

-----------------------------------------------------------------------------
(* The overlay's settings menu: shortcuts and undo *)

MaxKeys == 3       \* key presses and actions that call the store, in one behaviour

UNDO_WINDOW_MS == 8000

\* The clock advances in steps of half the undo window
UndoStep == UNDO_WINDOW_MS \div 2

\* The snapshot prepareUndo takes
SnapshotOf(st) == [displayMode |-> st["displayMode"], isHidden |-> st["isHidden"]]

\* prepareUndo(): the snapshot, canUndo, and a new timer in place of the old
PrepareUndo(u, st, now) ==
  [u EXCEPT !.snapshot = SnapshotOf(st), !.canUndo = TRUE,
            !.timer = now + UNDO_WINDOW_MS]

\* The timer's callback
UndoExpires(u) == [u EXCEPT !.snapshot = Null, !.timer = -1, !.canUndo = FALSE]

\* A slip: only the hidden flag is restored
UndoCallsHiddenOnly(snapshot) ==
  <<MkCall("setHidden", snapshot.isHidden, 0, Undef)>>

\* performUndo(): the calls it makes on the store
UndoCalls(snapshot) ==
  <<MkCall("setDisplayMode", snapshot.displayMode, 0, Undef),
    MkCall("setHidden", snapshot.isHidden, 0, Undef)>>

\* The shortcuts of the open settings menu and the call each makes
ShortcutCall(key) ==
  CASE key = "1" -> MkCall("setDisplayMode", Str("full"), 0, Undef)
    [] key = "2" -> MkCall("setDisplayMode", Str("compact"), 0, Undef)
    [] key = "3" -> MkCall("setDisplayMode", Str("minimal"), 0, Undef)
    [] key = "d" -> MkCall("setHidden", Bool(TRUE), 0, Undef)

\* Time passes; a timer that is due runs its callback
UndoTick ==
  /\ clock < Epoch + MaxTicks * UndoStep
  /\ clock' = clock + UndoStep
  /\ undo' = IF undo.timer # -1 /\ clock + UndoStep >= undo.timer
             THEN UndoExpires(undo) ELSE undo
  /\ last' = "tick"
  /\ UNCHANGED <<StoreVars, isDragging, dragOffset, dirty, view, effect, dragLog,
                 remote, pageVars, anchorVars, hookStore, server, search>>

\* The settings menu is opened in the rendered panel
OpenSettings ==
  /\ alive /\ ~undo.menuOpen /\ ~Truthy(state["isHidden"])
  /\ undo' = [undo EXCEPT !.menuOpen = TRUE]
  /\ last' = "open"
  /\ UNCHANGED <<StoreVars, OverlayVars, pageVars, anchorVars, hookStore, server, search>>

\* A key 1, 2, 3 or d while the menu is open: prepareUndo(), the change, and
\* the menu closes
Shortcut ==
  /\ alive /\ undo.menuOpen /\ undo.keys < MaxKeys
  /\ \E key \in {"1", "2", "3", "d"} : StoreRuns(<<ShortcutCall(key)>>, TRUE)
  /\ undo' = [PrepareUndo(undo, state, clock) EXCEPT
                !.menuOpen = FALSE, !.before = SnapshotOf(state), !.at = clock,
                !.undone = FALSE, !.keys = @ + 1]
  /\ last' = "shortcut"
  /\ UNCHANGED <<DragVars, remote, pageVars, anchorVars, hookStore, server, search>>

\* A display mode button of the menu: handleSetMode, without prepareUndo
PickMode ==
  /\ alive /\ undo.menuOpen /\ undo.keys < MaxKeys
  /\ StoreRuns(<<MkCall("setDisplayMode", Str("minimal"), 0, Undef)>>, TRUE)
  /\ undo' = [undo EXCEPT !.menuOpen = FALSE, !.keys = @ + 1]
  /\ last' = "pick"
  /\ UNCHANGED <<DragVars, remote, pageVars, anchorVars, hookStore, server, search>>

\* The palette's show action: revealOverlay()
Reveal ==
  /\ alive /\ Truthy(state["isHidden"]) /\ undo.keys < MaxKeys
  /\ StoreRuns(RevealCalls, TRUE)
  /\ undo' = [undo EXCEPT !.menuOpen = FALSE, !.keys = @ + 1]
  /\ last' = "reveal"
  /\ UNCHANGED <<DragVars, remote, pageVars, anchorVars, hookStore, server, search>>

\* Ctrl+Z or Cmd+Z while the menu is open: performUndo() if canUndo
UndoKey ==
  /\ alive /\ undo.menuOpen
  /\ IF undo.canUndo /\ undo.snapshot # Null
     THEN /\ undo.keys < MaxKeys
          /\ StoreRuns(UndoCalls(undo.snapshot), TRUE)
          /\ undo' = [undo EXCEPT !.snapshot = Null, !.timer = -1, !.canUndo = FALSE,
                                  !.undone = TRUE, !.keys = @ + 1]
     ELSE /\ StoreRuns(<<>>, TRUE)
          /\ undo' = undo
  /\ last' = "undo"
  /\ UNCHANGED <<DragVars, remote, pageVars, anchorVars, hookStore, server, search>>

NextUndo == UndoTick \/ OpenSettings \/ Shortcut \/ PickMode \/ Reveal \/ UndoKey

SpecUndo == InitOverlay /\ [][NextUndo]_vars

-----------------------------------------------------------------------------
(* The server: saveConnections of the database queries *)

\* val || null
OrNull(val) == IF Truthy(val) THEN val ELSE Null

\* The row inserted for a connection (the generated id and the dates are
\* left out)
RowOf(conn) ==
  [todoIndex |-> Get(conn.v, "todoIndex"),
   targetSelector |-> OrNull(Get(conn.v, "targetSelector")),
   targetLabel |-> OrNull(Get(conn.v, "targetLabel")),
   targetPositionX |-> IF Truthy(Get(conn.v, "targetPosition"))
                       THEN OrNull(Get(conn.v, "targetPosition").v["x"]) ELSE Null,
   targetPositionY |-> IF Truthy(Get(conn.v, "targetPosition"))
                       THEN OrNull(Get(conn.v, "targetPosition").v["y"]) ELSE Null]

RowsOf(connections) == {RowOf(connections.v[n]) : n \in DOMAIN connections.v}

\* The insert statement on the table with unique (instanceId, todoIndex):
\* all rows, or an error and none
InsertRows(rows, new) ==
  IF \E a \in rows, b \in new : a.todoIndex = b.todoIndex
  THEN [ok |-> FALSE, rows |-> rows]
  ELSE [ok |-> TRUE, rows |-> rows \cup new]

\* The bodies of the POST requests of the clients of one instance
ServerArgs == {Arr(<<>>), Arr(<<ConnA>>), Arr(<<ConnA2>>), Arr(<<ConnB>>)}

\* A request arrives: saveConnections(instanceKey, connections) has its
\* instance
RequestArrives ==
  /\ \E r \in Requests, arg \in ServerArgs :
       /\ server.pc[r].at = "none"
       /\ \A q \in Requests : q < r => server.pc[q].at # "none"
       /\ server' = [server EXCEPT !.pc[r] = [at |-> "started", arg |-> arg]]
  /\ last' = "request"
  /\ UNCHANGED <<StoreVars, OverlayVars, pageVars, anchorVars, hookStore, undo, search>>

\* await db.delete(vigiloConnection).where(instanceId = instance.id)
DeleteRows ==
  /\ \E r \in Requests :
       /\ server.pc[r].at = "started"
       /\ server' = [server EXCEPT !.rows = {}, !.pc[r].at = "deleted"]
  /\ last' = "delete"
  /\ UNCHANGED <<StoreVars, OverlayVars, pageVars, anchorVars, hookStore, undo, search>>

\* if (connections.length > 0) await db.insert(...).values(...); return true
InsertAll ==
  /\ \E r \in Requests :
       /\ server.pc[r].at = "deleted"
       /\ LET res == InsertRows(server.rows, RowsOf(server.pc[r].arg))
          IN server' = [server EXCEPT
                          !.rows = res.rows,
                          !.pc[r].at = IF res.ok THEN "done" ELSE "failed"]
  /\ last' = "insert"
  /\ UNCHANGED <<StoreVars, OverlayVars, pageVars, anchorVars, hookStore, undo, search>>

NextServer == RequestArrives \/ DeleteRows \/ InsertAll

SpecServer == InitEmpty /\ [][NextServer]_vars

-----------------------------------------------------------------------------
(* The overlay's task rows under the search query *)

\* Texts are sequences of characters
LowerCase(ch) ==
  CASE ch = "A" -> "a" [] ch = "B" -> "b" [] ch = "C" -> "c" [] OTHER -> ch

\* s.toLowerCase()
toLowerCase(s) == [n \in DOMAIN s |-> LowerCase(s[n])]

\* s.trim()
RECURSIVE trim(_)
trim(s) ==
  IF s = <<>> THEN s
  ELSE IF Head(s) = " " THEN trim(Tail(s))
  ELSE IF s[Len(s)] = " " THEN trim(SubSeq(s, 1, Len(s) - 1))
  ELSE s

\* s.includes(query)
includes(s, query) ==
  \E a \in 1..(Len(s) + 1) :
    a + Len(query) - 1 <= Len(s) /\ SubSeq(s, a, a + Len(query) - 1) = query

\* categoryData.items: the ordered task list of the category. An item
\* without an action has the empty one
CategoryItems ==
  <<[text |-> <<"a", "b">>, action |-> <<>>],
    [text |-> <<"C">>, action |-> <<"f", "i", "x">>],
    [text |-> <<"b", "c">>, action |-> <<>>],
    [text |-> <<"a">>, action |-> <<>>]>>

\* What the user types into the search input
Queries == {<<>>, <<" ">>, <<"a">>, <<"B">>, <<"f", "i">>}

MAX_VISIBLE_ITEMS == 3
maxItemsForMode(displayMode) ==
  IF displayMode = Str("compact") THEN 1 ELSE MAX_VISIBLE_ITEMS

\* The item passes the filter. The query is lowered, the item's fields too
Passes(item, searchQuery) ==
  LET query == toLowerCase(searchQuery)
  IN \/ includes(toLowerCase(item.text), query)
     \/ item.action # <<>> /\ includes(toLowerCase(item.action), query)

\* const originalIndex = idx: the index a row hands to its handlers
originalIndex(idx, filtered) == idx

RECURSIVE FilterFrom(_, _, _)
FilterFrom(items, n, searchQuery) ==
  IF n > Len(items) THEN <<>>
  ELSE IF Passes(items[n], searchQuery)
       THEN <<n>> \o FilterFrom(items, n + 1, searchQuery)
       ELSE FilterFrom(items, n + 1, searchQuery)

\* filteredItems, as the positions in categoryData.items of the items kept
filteredItems(searchQuery) ==
  IF trim(searchQuery) = <<>> THEN [n \in 1..Len(CategoryItems) |-> n]
  ELSE FilterFrom(CategoryItems, 1, searchQuery)

\* itemsToRender
itemsToRender(searchQuery, isExpanded, displayMode) ==
  LET f == filteredItems(searchQuery)
      m == maxItemsForMode(displayMode)
  IN IF isExpanded \/ Len(f) <= m THEN f ELSE SubSeq(f, 1, m)

\* The rows of the committed render: they are rendered in the modes full
\* and compact
RenderedRows ==
  IF shown = EmptyFcn \/ shown["displayMode"] \notin {Str("full"), Str("compact")}
  THEN <<>>
  ELSE itemsToRender(search.query, search.isExpanded, shown["displayMode"])

\* getItemStatus(index) of the committed render
getItemStatus(statuses, index) ==
  IF index \in DOMAIN statuses.v /\ Truthy(statuses.v[index])
  THEN statuses.v[index] ELSE Str("todo")

nextStatus(currentStatus) ==
  CASE currentStatus = Str("todo") -> Str("working")
    [] currentStatus = Str("working") -> Str("done")
    [] OTHER -> Str("todo")

\* onChange of the search input, and its clear button
SetSearchQuery ==
  /\ alive /\ shown # EmptyFcn
  /\ \E q \in Queries : q # search.query /\ search' = [search EXCEPT !.query = q]
  /\ last' = "search"
  /\ UNCHANGED <<StoreVars, OverlayVars, pageVars, anchorVars, hookStore, undo, server>>

\* toggleViewMore: the button is rendered when hasMore
ToggleViewMore ==
  /\ alive /\ shown # EmptyFcn
  /\ Len(filteredItems(search.query)) > maxItemsForMode(shown["displayMode"])
  /\ search' = [search EXCEPT !.isExpanded = ~@]
  /\ last' = "viewMore"
  /\ UNCHANGED <<StoreVars, OverlayVars, pageVars, anchorVars, hookStore, undo, server>>

\* onClick of the status toggle of a row
CycleStatus ==
  /\ alive /\ ~dirty /\ gest.ops < MaxOps
  /\ \E idx \in 0..(Len(RenderedRows) - 1) :
       LET index == originalIndex(idx, RenderedRows)
           currentStatus == getItemStatus(shown["statuses"], index)
       IN /\ StoreRuns(<<MkCall("setStatus", nextStatus(currentStatus), index, Undef)>>,
                       TRUE)
          /\ search' = [search EXCEPT !.acted = [kind |-> "status",
                                                 task |-> RenderedRows[idx + 1] - 1,
                                                 used |-> index]]
  /\ gest' = [gest EXCEPT !.ops = @ + 1]
  /\ last' = "cycle"
  /\ UNCHANGED <<DragVars, remote, pageVars, hookStore, undo, server, dom, shown,
                 paint, selectingIndex>>

\* onContextMenu of a row: setSelectingIndex(originalIndex)
SelectRow ==
  /\ alive /\ ~dirty /\ selectingIndex = -1
  /\ \E idx \in 0..(Len(RenderedRows) - 1) :
       LET index == originalIndex(idx, RenderedRows)
       IN /\ selectingIndex' = index
          /\ search' = [search EXCEPT !.acted = [kind |-> "select",
                                                 task |-> RenderedRows[idx + 1] - 1,
                                                 used |-> index]]
  /\ last' = "select"
  /\ UNCHANGED <<StoreVars, DragVars, dirty, remote, pageVars, hookStore, undo, server,
                 dom, shown, paint, gest>>

NextRows ==
  Paint \/ SetSearchQuery \/ ToggleViewMore \/ CycleStatus \/ SelectRow \/ ClickTarget

SpecRows == InitOverlay /\ [][NextRows]_vars

-----------------------------------------------------------------------------
(* Programmatic access: useVigiloInstance beside the mounted overlay *)

\* The instance key of the store the hook creates. The hook passes the
\* StorageKeys object where createVigiloStore takes the instance key: the
\* adapter's keys are built from the object's string, or, with a
\* createVigiloStore that takes the keys, from instanceId
HookKeyChoices == {InstanceKey, "[object Object]"}
HookStorageKeys ==
  UNION {{createStorageKeys(i)[k] : k \in KeyNames} : i \in HookKeyChoices}

\* The overlay is mounted over empty storage, the hook is not
InitHook ==
  /\ ls = [k \in AllStorageKeys \cup HookStorageKeys |-> NoItem]
  /\ alive = TRUE
  /\ overrides = "lineColor" :> Str("#fff")
  /\ loaded = loadState(ls, Keys, TRUE)
  /\ state = hydrateState(loaded, overrides).state
  /\ want = state
  /\ hydrateThrew = FALSE
  /\ listeners = <<1>>
  /\ react = [l \in Listeners |-> Idle]
  /\ nCalls = 0
  /\ prevState = EmptyFcn
  /\ prevLs = ls
  /\ subsAtCall = {}
  /\ lastCall = NoCall
  /\ notes = <<>>
  /\ calls = <<>>
  /\ muts = <<>>
  /\ threw = FALSE
  /\ last = "construct"
  /\ clean = FALSE
  /\ roundTrip = FALSE
  /\ lastW = AllWritable
  /\ readOk = TRUE
  /\ clock = Epoch
  /\ isDragging = FALSE
  /\ dragOffset = [x |-> 0, y |-> 0]
  /\ dirty = FALSE
  /\ view = [pos |-> state["position"], isDragging |-> FALSE,
             dragOffset |-> [x |-> 0, y |-> 0]]
  /\ effect = EffectOff
  /\ dragLog = NoDragLog
  /\ remote = NoRemote
  /\ PageIdle
  /\ AnchorIdle
  /\ SideIdle


\* The hook's effect: createVigiloStore(keys, ...), a store of its own
HookMount ==
  /\ ~hookStore.made
  /\ \E hk \in HookKeyChoices :
       hookStore' = [made |-> TRUE, key |-> hk,
                     state |-> hydrateState(loadState(ls, createStorageKeys(hk), TRUE),
                                            EmptyFcn).state,
                     added |-> Null]
  /\ last' = "hookMount"
  /\ UNCHANGED <<StoreVars, OverlayVars, pageVars, anchorVars, undo, server, search>>

\* useVigiloInstance().addConnection(i, target): setConnections on the
\* hook's store, which assigns its state and saves under its keys
HookAdd ==
  /\ hookStore.made /\ hookStore.added = Null
  /\ \E a \in HookArgs :
       LET newConn == HookConn(a.index, a.target)
           next == HookNext(hookStore.state["connections"], a.index, newConn)
       IN /\ hookStore' = [hookStore EXCEPT !.state["connections"] = SpreadArr(next),
                                            !.added = newConn]
          /\ ls' = Save(ls, createStorageKeys(hookStore.key), "saveConnections",
                        next, TRUE).store
  /\ prevLs' = ls
  /\ prevState' = state
  /\ last' = "hookAdd"
  /\ UNCHANGED <<alive, overrides, state, hydrateThrew, listeners, react, nCalls,
                 subsAtCall, lastCall, notes, calls, muts, threw, loaded, clean,
                 roundTrip, want, lastW, readOk,
                 OverlayVars, pageVars, anchorVars, undo, server, search>>

\* What the overlay's gestures on task j pass to setConnections: the connect
\* gesture's click, or removeConnection(j)
OverlayEdits(connections, j) ==
  {ClickNext(connections, j, NewConn(j, "#a")),
   Arr(SelectSeq(connections.v, LAMBDA c : Get(c.v, "todoIndex") # Num(j)))}

\* The overlay adds, replaces or removes the connection of task j
OverlayEdit ==
  /\ alive /\ gest.ops < MaxOps
  /\ \E j \in {0, 1} :
       /\ \E next \in OverlayEdits(state["connections"], j) :
            StoreRuns(<<MkCall("setConnections", next, 0, Undef)>>, TRUE)
       /\ gest' = [index |-> j, conn |-> Undef, ops |-> gest.ops + 1]
       /\ hookStore' = IF hookStore.added # Null
                           /\ Get(hookStore.added.v, "todoIndex") = Num(j)
                        THEN [hookStore EXCEPT !.added = Null]
                        ELSE hookStore
  /\ last' = "overlayEdit"
  /\ UNCHANGED <<DragVars, remote, pageVars, dom, shown, paint, selectingIndex,
                 undo, server, search>>

NextHook == HookMount \/ HookAdd \/ OverlayEdit

SpecHook == InitHook /\ [][NextHook]_vars

-----------------------------------------------------------------------------
(* Properties *)

\* The built-in default of each slice
BuiltInDefault(s) ==
  CASE s = "position" -> Obj([x |-> Num(20), y |-> Num(20)])
    [] s = "connections" -> Arr(<<>>)
    [] s = "displayMode" -> Str("full")
    [] s = "isHidden" -> Bool(FALSE)
    [] s \in {"showLines", "showBadges"} -> Bool(TRUE)
    [] s = "lineColor" -> Str("#3b82f6")
    [] s = "lineOpacity" -> Num(60)
    [] s = "componentOpacity" -> Num(100)
    [] s = "statuses" -> MapV(EmptyFcn)

\* The value has the type the data model declares for the slice
WellTyped(s, val) ==
  CASE s = "position" ->
         /\ val.t = "object"
         /\ DOMAIN val.v = {"x", "y"}
         /\ val.v["x"].t = "number" /\ val.v["y"].t = "number"
    [] s = "connections" -> val.t = "array"
    [] s = "displayMode" -> val \in {Str("full"), Str("compact"), Str("minimal")}
    [] s \in {"isHidden", "showLines", "showBadges"} -> val.t = "boolean"
    [] s = "lineColor" -> val.t = "string"
    [] s \in {"lineOpacity", "componentOpacity"} -> val.t = "number"
    [] s = "statuses" ->
         /\ val.t = "map"
         /\ \A i \in DOMAIN val.v : val.v[i] \in {Str("todo"), Str("working"), Str("done")}

\* The value lies in the domain the data model declares for the slice
\* (opacities in hundredths: lineOpacity in [0,1], componentOpacity in [0.1,1])
InDomain(s, val) ==
  /\ WellTyped(s, val)
  /\ s = "lineOpacity" => (val.v >= 0 /\ val.v <= 100)
  /\ s = "componentOpacity" => (val.v >= 10 /\ val.v <= 100)

DistinctIndices(arr) ==
  \A i, j \in DOMAIN arr.v :
    i # j => Get(arr.v[i].v, "todoIndex") # Get(arr.v[j].v, "todoIndex")

\* C2: At most one connection per task index. After any sequence of
\* setConnections calls, with any argument arrays, the connections of the
\* state never hold two entries with the same todoIndex.
C2_AtMostOnePerIndex ==
  alive => DistinctIndices(state["connections"])

\* C3: The in-memory state does not depend on persistence succeeding. Whether
\* each durable write succeeds or fails, no mutator throws to its caller and
\* every slice of the state is the value given by the most recent mutator
\* call on that slice.
C3_MemoryIndependentOfWrites ==
  alive => (~threw /\ \A s \in SliceNames : state[s] = want[s])

\* C3 witness: a persisting call whose write failed, and the state changed
C3_Witness ==
  /\ last = "call" /\ ~SkipsSave(lastCall) /\ ~lastW[1]
  /\ ls = prevLs
  /\ state # prevState
  /\ ~threw

\* Each mutator with its slice and the save method of that slice
MutatorTable ==
  {<<"setPosition", "position", "savePosition">>,
   <<"setConnections", "connections", "saveConnections">>,
   <<"setDisplayMode", "displayMode", "saveDisplayMode">>,
   <<"setHidden", "isHidden", "saveHidden">>,
   <<"setShowLines", "showLines", "saveShowLines">>,
   <<"setShowBadges", "showBadges", "saveShowBadges">>,
   <<"setLineColor", "lineColor", "saveLineColor">>,
   <<"setLineOpacity", "lineOpacity", "saveLineOpacity">>,
   <<"setComponentOpacity", "componentOpacity", "saveComponentOpacity">>,
   <<"setStatuses", "statuses", "saveStatuses">>,
   <<"setStatus", "statuses", "saveStatuses">>,
   <<"resetStatuses", "statuses", "saveStatuses">>}

\* C4: Slice locality of mutators. A mutator called with persistence enabled
\* changes only its own slice, leaves every other slice at its previous
\* value, and invokes exactly one storage method exactly once: the save
\* method of that slice, with the new value.
C4_SliceLocality ==
  (last = "call" /\ lastCall.persist # Bool(FALSE)) =>
    \E row \in MutatorTable :
      /\ row[1] = lastCall.op
      /\ \A s \in SliceNames \ {row[2]} : state[s] = prevState[s]
      /\ calls = <<[method |-> row[3], val |-> state[row[2]]]>>

\* C4 witness: setStatus went to saveStatuses, once, with the new map
C4_Witness ==
  /\ last = "call" /\ lastCall.op = "setStatus" /\ lastCall.index = 2
  /\ calls = <<[method |-> "saveStatuses", val |-> state["statuses"]]>>
  /\ state["statuses"] # prevState["statuses"]

\* How often listener l was invoked for mutation k of the last external call
Invocations(l, k) ==
  Cardinality({i \in DOMAIN notes : notes[i].l = l /\ notes[i].mut = k})

\* C5: setPosition(p, {persist:false}) sets state.position to p and notifies
\* every subscriber but invokes no storage method, so the durable position
\* record keeps its previous value; without the option, or with
\* persist:true, savePosition(p) is invoked and p is written.
C5_PositionPersistOption ==
  (last = "call" /\ lastCall.op = "setPosition") =>
    /\ state["position"] = lastCall.arg
    /\ \A l \in subsAtCall : Invocations(l, 1) = 1
    /\ IF lastCall.persist = Bool(FALSE)
       THEN calls = <<>> /\ ls = prevLs
       ELSE /\ calls = <<[method |-> "savePosition", val |-> lastCall.arg]>>
            /\ lastW[1] =>
                 ls[Keys.pos] =
                   JObj([k \in {"x", "y"} |-> JNum(lastCall.arg.v[k].v)])

\* C5 witness: a position was stored, then another set with persist:false
C5_Witness ==
  /\ last = "call" /\ lastCall = MkCall("setPosition", Pos2, 0, Bool(FALSE))
  /\ state["position"] = Pos2
  /\ ls[Keys.pos] # NoItem /\ Parse(ls[Keys.pos]).val = Pos1
  /\ subsAtCall = Listeners

\* C6: Broadcast order. For any sequence of mutator calls, made from outside
\* or from inside a listener that is being notified, every subscriber is
\* notified once per mutation, in the order in which the mutators were
\* called, and at each notification getState() is the state produced by the
\* mutation being announced.
C6_BroadcastInCallOrder ==
  last = "call" =>
    /\ \A i \in DOMAIN notes : notes[i].seen = muts[notes[i].mut].after
    /\ \A i, j \in DOMAIN notes :
         (i < j /\ notes[i].l = notes[j].l) => notes[i].mut < notes[j].mut
    /\ \A l \in subsAtCall \cap SetMembers(listeners) :
         \A k \in DOMAIN muts : Invocations(l, k) = 1

\* C7: Notification fan-out. When a mutator is called, every listener
\* subscribed at that moment is invoked exactly once for it before the
\* mutator returns, also when a listener subscribes or unsubscribes
\* listeners while the notification is in progress. (Stated for the calls
\* during which no listener calls a mutator.)
C7_FanOutToAllSubscribed ==
  (last = "call" /\ Len(muts) = 1) =>
    \A l \in subsAtCall : Invocations(l, 1) = 1

\* The value stored under a key name, when the item parses
StoredValue(k) ==
  IF Present(ls[Keys[k]]) /\ Parse(ls[Keys[k]]).ok
  THEN Parse(ls[Keys[k]]).val
  ELSE Undef

\* The stored record of the slice is the record of a value of its type
ValidRecord(k) ==
  /\ StoredValue(k) # Undef
  /\ IF k = "statuses"
     THEN /\ StoredValue(k).t = "object"
          /\ \A q \in DOMAIN StoredValue(k).v :
               /\ q \in {"0", "1", "2", "3", "4"}
               /\ StoredValue(k).v[q] \in {Str("todo"), Str("working"), Str("done")}
     ELSE InDomain(SliceOfKey(k), StoredValue(k))

\* C8: loadState of the local adapter never throws. Whatever localStorage
\* holds, a slice whose record is missing, unparsable or invalid is omitted
\* from the returned partial state, and every slice that has a valid record
\* is returned.
C8_LoadStateOmitsBadRecords ==
  (last = "construct" /\ readOk) =>
    /\ \A s \in DOMAIN loaded : InDomain(s, loaded[s])
    /\ \A k \in KeyNames \ {"col"} :
         ValidRecord(k) =>
           /\ SliceOfKey(k) \in DOMAIN loaded
           /\ k # "statuses" => loaded[SliceOfKey(k)] = StoredValue(k)

\* The stored number of an opacity record, in hundredths
InRange(val, lo, hi) == val.t = "number" /\ val.v >= lo /\ val.v <= hi

\* C9: Numeric slices are validated on read. loadState returns lineOpacity
\* only when the stored value is a number in [0,1] and componentOpacity only
\* when it is a number in [0.1,1]; any other stored value is treated as
\* absent, so the hydrated state takes the next-lower-precedence value.
C9_NumericSlicesValidated ==
  (last = "construct" /\ readOk) =>
    /\ "lineOpacity" \in DOMAIN loaded <=> InRange(StoredValue("lineOpacity"), 0, 100)
    /\ "componentOpacity" \in DOMAIN loaded <=>
         InRange(StoredValue("componentOpacity"), 10, 100)
    /\ (alive /\ ~InRange(StoredValue("componentOpacity"), 10, 100)) =>
         state["componentOpacity"] =
           IF "componentOpacity" \in DOMAIN overrides
           THEN overrides["componentOpacity"] ELSE Num(100)

C11_DragWritesThrottled ==
  \A i, j \in DOMAIN dragLog.writes :
    i < j => dragLog.writes[j] - dragLog.writes[i] > SAVE_THROTTLE

C13_AdaptersHydrateAlike ==
  (alive /\ remote.made) => remote.state = state

\* The records of the registry that belong to other keys than `key`
OtherRecords(reg, key) == SelectSeq(reg, LAMBDA r : r.v.instanceKey # key)
RecordsOf(reg, key) == SelectSeq(reg, LAMBDA r : r.v.instanceKey = key)

\* C14: updateInstance(k, snapshot) leaves exactly one record for k, equal to
\* the snapshot, and the other keys' records as they were; updateInstance(k,
\* null) and removeInstance(k) leave no record for k, the others as they
\* were, and nothing changed when k had no record
C14_RegistryUpsertAndRemoval ==
  \A n \in DOMAIN regLog :
    LET e == regLog[n]
        removal == e.op = "remove" \/ e.snapshot = Null
    IN /\ OtherRecords(getPaletteInstances(e.after), e.key) = OtherRecords(e.before, e.key)
       /\ ~removal => RecordsOf(getPaletteInstances(e.after), e.key) = <<e.snapshot>>
       /\ removal => RecordsOf(getPaletteInstances(e.after), e.key) = <<>>
       /\ (removal /\ RecordsOf(e.before, e.key) = <<>>) => e.after = e.before

\* The record of a key is replaced while the registry holds another key's
C14_Witness ==
  /\ \E n \in DOMAIN regLog :
       regLog[n].op = "update" /\ regLog[n].snapshot # Null
         /\ RecordsOf(regLog[n].before, regLog[n].key) # <<>>
         /\ RecordsOf(regLog[n].before, regLog[n].key) # <<regLog[n].snapshot>>
         /\ Len(regLog[n].before) = 2

\* The record a component's latest state calls for
Expected(o) == Snapshot(instanceKeyOf(o.props), categoryData(o.props.category), o.st)

\* The components whose overlay is mounted and whose category exists
Publishing == {i \in Overlays : Core(page[i]) /\ categoryData(page[i].props.category) # Undef}

\* C15: once the scheduled renders are committed, the registry holds one
\* record for each mounted overlay whose category exists, reflecting its
\* latest state, and no other record
C15_RegistryFollowsLifecycle ==
  (\A i \in Overlays : ~page[i].stale) =>
    /\ Len(registry) = Cardinality(Publishing)
    /\ {registry[n] : n \in DOMAIN registry} = {Expected(page[i]) : i \in Publishing}

\* After an instance-key change and a state change, with another overlay
\* unmounted since
C15_Witness ==
  /\ last = "commit" /\ \A i \in Overlays : ~page[i].stale
  /\ Cardinality(Publishing) = 1
  /\ \E i \in Publishing : page[i].st["isHidden"] = Bool(TRUE)
                             /\ page[i].st["connections"] # Arr(<<>>)
                             /\ page[i].props.instanceId = "k1"
  /\ \E i \in Overlays : ~page[i].mounted

\* C20: while a Vigilo component is mounted, exactly one command palette is
\* mounted
C20_ExactlyOnePalette ==
  (\E i \in Overlays : page[i].mounted) =>
    Cardinality({i \in Overlays : page[i].mounted /\ page[i].shouldRenderPalette}) = 1

C17_InvalidSelectorGuarded ==
  last = "paint" =>
    /\ ~paint.threw
    /\ \A n \in paint.drawn :
         Get(state["connections"].v[n].v, "targetSelector") # Str(BadSelector)

\* C18: focusing leaves every slice of the store's state unchanged, in
\* memory and in storage
C18_FocusLeavesState ==
  last = "focus" => (state = prevState /\ ls = prevLs)

\* The entries of a connections array for task i, and those of other tasks
EntriesFor(connections, i) ==
  SelectSeq(connections.v, LAMBDA c : Get(c.v, "todoIndex") = Num(i))
EntriesNotFor(connections, i) ==
  SelectSeq(connections.v, LAMBDA c : Get(c.v, "todoIndex") # Num(i))

\* C19: connecting task i when the store holds a connection for i leaves
\* exactly one entry for i, the new one, and the other tasks' entries as
\* they were
C19_ConnectReplaces ==
  (last \in {"connect", "addConnection"} /\ EntriesFor(prevState["connections"], gest.index) # <<>>) =>
    /\ EntriesFor(state["connections"], gest.index) = <<gest.conn>>
    /\ EntriesNotFor(state["connections"], gest.index)
         = EntriesNotFor(prevState["connections"], gest.index)


\* The displayMode loadState yields from the storage without its legacy
\* collapsed record
ModeWithoutLegacy ==
  Get(loadState([ls EXCEPT ![Keys.col] = NoItem], Keys, TRUE), "displayMode")

\* The displayMode a legacy collapsed record maps to
LegacyMode == IF ls[Keys.col] = JBool(TRUE) THEN Str("compact") ELSE Str("full")

\* C22: with a legacy collapsed record and no displayMode record, loadState
\* yields compact for true and full for false; with a displayMode record the
\* legacy record has no influence on the loaded displayMode
C22_LegacyCollapsed ==
  (last = "construct" /\ readOk) =>
    /\ (ls[Keys.mode] = NoItem /\ ls[Keys.col] \in {JBool(TRUE), JBool(FALSE)})
         => Get(loaded, "displayMode") = LegacyMode
    /\ ls[Keys.mode] # NoItem => Get(loaded, "displayMode") = ModeWithoutLegacy

\* C22, amended: the same, the displayMode record being any item that is not
\* the empty string; an empty item counts as no displayMode record
C22_LegacyCollapsedNonEmpty ==
  (last = "construct" /\ readOk) =>
    /\ (~Present(ls[Keys.mode]) /\ ls[Keys.col] \in {JBool(TRUE), JBool(FALSE)})
         => Get(loaded, "displayMode") = LegacyMode
    /\ Present(ls[Keys.mode]) => Get(loaded, "displayMode") = ModeWithoutLegacy

\* A store is constructed over a displayMode record and a legacy record that
\* maps to another mode
C22_Witness ==
  /\ last = "construct" /\ readOk
  /\ Present(ls[Keys.mode]) /\ ls[Keys.col] \in {JBool(TRUE), JBool(FALSE)}
  /\ Get(loaded, "displayMode") # LegacyMode

\* C23: after the overlay is unmounted and mounted again under the same
\* instanceKey with unchanged props, state.lineColor is what it was, a color
\* chosen with setLineColor included
C23_LineColorSurvivesRemount ==
  (last = "construct" /\ prevState # EmptyFcn) =>
    state["lineColor"] = prevState["lineColor"]

\* C25: without overrides, whatever localStorage holds, a store is
\* constructed and every slice of its state has the type the data model
\* declares for it
C25_HydratedStateWellTyped ==
  (last = "construct" /\ overrides = EmptyFcn) =>
    /\ alive
    /\ \A s \in SliceNames : s \in DOMAIN state /\ WellTyped(s, state[s])

\* C28: the storage keys of two instance keys, or of two slices, are
\* different, and a mutator call on the store of one instance key leaves
\* what loadState returns for every other instance key as it was
C28_RecordsNamespaced ==
  /\ \A i1 \in OtherInstanceKeys \cup {InstanceKey}, i2 \in OtherInstanceKeys \cup {InstanceKey} :
       \A k1 \in KeyNames, k2 \in KeyNames :
         createStorageKeys(i1)[k1] = createStorageKeys(i2)[k2] => (i1 = i2 /\ k1 = k2)
  /\ last = "call" =>
       \A i \in OtherInstanceKeys :
         loadState(ls, createStorageKeys(i), TRUE)
           = loadState(prevLs, createStorageKeys(i), TRUE)

\* A call wrote a record of its store while another instance has records
C28_Witness ==
  /\ last = "call" /\ ls # prevLs
  /\ \E i \in OtherInstanceKeys : loadState(ls, createStorageKeys(i), TRUE) # EmptyFcn

\* C29: every write succeeding, when a mutator call made from outside has
\* returned, the record of each slice that has one is the text of the
\* slice's in-memory value (the position, whose write a caller may skip, is
\* left out)
C29_DurableFollowsMemory ==
  (last = "call" /\ ~threw /\ lastW = AllWritable) =>
    \A k \in KeyNames \ {"col", "pos"} :
      ls[Keys[k]] # NoItem =>
        ls[Keys[k]] = ValidText(SliceOfKey(k), state[SliceOfKey(k)])

\* The connections array holds the connection
Holds(connections, conn) ==
  connections.t = "array" /\ \E n \in DOMAIN connections.v : connections.v[n] = conn

\* What JSON.parse gives back for the connection's record
ToStored(conn) == Parse(Stringify(conn)).val

\* C21: a connection added with useVigiloInstance().addConnection is among
\* the connections of the mounted overlay, in its store's state and in its
\* record, when it is added and after every later gesture of the overlay on
\* another task
C21_HookReachesOverlay ==
  (last \in {"hookAdd", "overlayEdit"} /\ hookStore.added # Null) =>
    /\ Holds(state["connections"], hookStore.added)
    /\ Holds(StoredValue("con"), ToStored(hookStore.added))

\* The connection has a targetSelector or a targetPosition, not both
ExactlyOneTarget(c) ==
  ("targetSelector" \in DOMAIN c.v) # ("targetPosition" \in DOMAIN c.v)

\* The connection points at an element of the page
DomAnchored(connections, j) ==
  \E n \in DOMAIN connections.v :
    /\ Get(connections.v[n].v, "todoIndex") = Num(j)
    /\ "targetSelector" \in DOMAIN connections.v[n].v

\* C24: every connection the overlay's gestures leave in the store has
\* exactly one of targetSelector and targetPosition, and the connection whose
\* end point was dragged is its todoIndex with a targetPosition at the
\* pointer, without selector and label
C24_ExactlyOneTarget ==
  /\ \A n \in DOMAIN state["connections"].v :
       ExactlyOneTarget(state["connections"].v[n])
  /\ (last = "edit" /\ DomAnchored(prevState["connections"], gest.index)) =>
       EntriesFor(state["connections"], gest.index)
         = <<Obj([todoIndex |-> Num(gest.index), targetPosition |-> gest.conn])>>

\* The end point of a DOM-anchored connection was dragged
C24_Witness ==
  /\ last = "edit" /\ DomAnchored(prevState["connections"], gest.index)
  /\ ~DomAnchored(state["connections"], gest.index)
  /\ ls[Keys.con] = Stringify(state["connections"])

\* An undo is due: a shortcut was used less than the undo window ago and no
\* undo was performed since
UndoDue ==
  undo.before # Null /\ clock < undo.at + UNDO_WINDOW_MS /\ ~undo.undone

\* C26: an undo within the undo window after a shortcut restores displayMode
\* and isHidden to their values just before the shortcut; an undo after the
\* window, or after an undo, changes nothing
C26_UndoWindow ==
  [][(last' = "undo") =>
       IF UndoDue
       THEN /\ state'["displayMode"] = undo.before.displayMode
            /\ state'["isHidden"] = undo.before.isHidden
            /\ ~undo'.canUndo
       ELSE state' = state /\ ls' = ls]_vars

\* An undo brought back a display mode and showed the overlay again
C26_Witness ==
  /\ last = "undo" /\ undo.undone
  /\ state["displayMode"] # prevState["displayMode"]
  /\ ~Truthy(state["isHidden"])
  /\ undo.before.displayMode = state["displayMode"]

\* Every request that arrived has completed
AllCompleted ==
  /\ \E r \in Requests : server.pc[r].at # "none"
  /\ \A r \in Requests : server.pc[r].at \in {"none", "done", "failed"}

\* C27: when the saveConnections calls for an instance have completed, the
\* stored connections of the instance are the argument of one of the calls
C27_ServerSaveReplaces ==
  AllCompleted =>
    \E r \in Requests :
      server.pc[r].at # "none" /\ server.rows = RowsOf(server.pc[r].arg)

\* The index stored in the connection the last gesture made
ConnectedIndex == Get(gest.conn.v, "todoIndex").v

\* C30: cycling the status of a displayed row changes the status stored
\* under the index of the row's task in the category's item list, and no
\* other; starting a connection from a row selects, and then connects, that
\* index; also while a search query filters the rows
C30_RowActionsAddressTask ==
  /\ last = "cycle" =>
       /\ search.acted.task \in DOMAIN state["statuses"].v
       /\ state["statuses"].v[search.acted.task] # getItemStatus(prevState["statuses"], search.acted.task)
       /\ \A i \in DOMAIN state["statuses"].v :
            i # search.acted.task =>
              i \in DOMAIN prevState["statuses"].v
              /\ state["statuses"].v[i] = prevState["statuses"].v[i]
  /\ (last = "select" /\ search.acted.kind = "select") =>
       selectingIndex = search.acted.task
  /\ (last = "connect" /\ search.acted.kind = "select") =>
       ConnectedIndex = search.acted.task

=============================================================================
